---- MODULE Spec2Model ----
(***************************************************************************)
(* Model of the PDF book analyzers: the token estimator and chunk          *)
(* splitter, the completion clients with their retry loops, and the        *)
(* single-pass / multi-stage orchestrators of book_analyzer.py and         *)
(* deepseek_processor.py.                                                  *)
(*                                                                         *)
(* A text is a sequence of characters.  Characters are written as short    *)
(* ASCII names: "c" a CJK ideograph (U+4E00..U+9FFF), "a" a Latin letter,  *)
(* "1" a digit, "sp" a space, "nl" a newline, "dot" the Latin period,      *)
(* "istop" / "iexcl" / "iq" the full-width terminators.                    *)
(***************************************************************************)
EXTENDS Integers, Sequences, FiniteSets, TLC

VARIABLES
    \* split_text_into_chunks: its arguments, its result, its position
    text, max_tokens, chunks, split_pc,
    \* book_analyzer.DeepseekClient.extract_content: one call in progress
    cl_pc, cl_max_retries, cl_retry_count, cl_requests, cl_last_error,
    cl_result,
    \* book_analyzer.process_large_book
    bk_pc, bk_n, bk_i, base_structure, chunk_results, final_integration,
    final_result, bk_return,
    \* deepseek_processor.analyze_pdf_with_deepseek / process_large_pdf
    pdf_pc, doc, pdf_chunks, important_themes, pdf_batch, base_data,
    pdf_log, pdf_final, pdf_return,
    \* deepseek_processor.extract_content(input_file, max_retries)
    ex_pc, ex_max_retries, ex_attempt, ex_text_len, ex_log, ex_result,
    \* book_analyzer.ensure_json_format: the response text and how it was
    \* put together, the result, the result for the re-serialised result
    js_pc, js_shape, js_text, js_result, js_again,
    \* deepseek_processor.main in directory mode: the listing, --max-files,
    \* the selected files, the loop index, the results, the number of
    \* completion requests sent for each file, the final statistics
    bt_pc, bt_found, bt_max_files, pdf_files, bt_i, results, bt_sent,
    bt_report,
    \* the section analyzers: which program runs, the credential, the
    \* extracted text, the values of the stage calls made so far, the
    \* number of HTTP requests sent, the saved report
    sec_pc, sec_analyzer, DEEPSEEK_API_KEY, sec_pdf_text, sections,
    sec_requests, sec_report,
    \* generate_markdown: which program's renderer, the report, the lines
    \* written, the value returned
    md_pc, md_program, md_data, md_output, md_ok,
    \* the standardisation of deepseek_processor.extract_content: the parsed
    \* response and the standardised result
    al_pc, al_data, al_result,
    \* deepseek_processor.translate_text(text, max_retries): the argument,
    \* the loop counter, the requests sent, the sleeps taken, the outcome
    tr_pc, tr_text, tr_max_retries, tr_retry_count, tr_requests, tr_sleeps,
    tr_result,
    \* estimate_tokens: a text T, a text U appended to it, the estimates of T
    \* and of T + U
    es_pc, es_text, es_suffix, es_tokens, es_extended,
    \* extract_pdf_text of the section analyzers: which program, what the
    \* reader gives (a text as runs of equal characters), the value returned
    tc_pc, tc_analyzer, tc_text, tc_result,
    \* the content handed to the stage calls of the 7-stage and the 3-stage
    \* analyzer, and the part of it each call so far has put in its prompt
    sl_pc, sl_analyzer, content, sl_slices

splitVars == <<text, max_tokens, chunks, split_pc>>

clientVars == <<cl_pc, cl_max_retries, cl_retry_count, cl_requests,
                cl_last_error, cl_result>>

bookVars == <<bk_pc, bk_n, bk_i, base_structure, chunk_results,
              final_integration, final_result, bk_return>>

pdfVars == <<pdf_pc, doc, pdf_chunks, important_themes, pdf_batch, base_data,
             pdf_log, pdf_final, pdf_return>>

extractVars == <<ex_pc, ex_max_retries, ex_attempt, ex_text_len, ex_log,
                 ex_result>>

jsonVars == <<js_pc, js_shape, js_text, js_result, js_again>>

batchVars == <<bt_pc, bt_found, bt_max_files, pdf_files, bt_i, results,
               bt_sent, bt_report>>

sectionVars == <<sec_pc, sec_analyzer, DEEPSEEK_API_KEY, sec_pdf_text,
                 sections, sec_requests, sec_report>>

markdownVars == <<md_pc, md_program, md_data, md_output, md_ok>>

aliasVars == <<al_pc, al_data, al_result>>

translateVars == <<tr_pc, tr_text, tr_max_retries, tr_retry_count,
                   tr_requests, tr_sleeps, tr_result>>

estimateVars == <<es_pc, es_text, es_suffix, es_tokens, es_extended>>

truncateVars == <<tc_pc, tc_analyzer, tc_text, tc_result>>

sliceVars == <<sl_pc, sl_analyzer, content, sl_slices>>

restVars == <<jsonVars, batchVars, sectionVars, markdownVars, aliasVars,
              translateVars, estimateVars, truncateVars, sliceVars>>

vars == <<splitVars, clientVars, bookVars, pdfVars, extractVars, restVars>>

----------------------------------------------------------------------------
(* Bounds of the explored inputs. *)

MaxBlocks == 5
MaxTokens == 6
MaxRetries == 3
MaxChunks == 3

----------------------------------------------------------------------------
(* Character classes used by estimate_tokens and the splitter. *)

CJK == {"c"}
Letters == {"a"}
Digits == {"1"}

\* \w of Python's re on str: letters, digits, underscore, and CJK ideographs.
IsWordChar(ch) == ch \in Letters \cup Digits \cup CJK

\* Python text[start:end] for 0 <= start and end <= len(text).
Slice(t, start, end) == SubSeq(t, start + 1, end)

RECURSIVE Concat(_)
Concat(ss) == IF ss = <<>> THEN <<>> ELSE Head(ss) \o Concat(Tail(ss))

\* math.ceil(a / b) for a >= 0, b >= 1.
Ceil(a, b) == (a + b - 1) \div b

Max2(a, b) == IF a >= b THEN a ELSE b
Min2(a, b) == IF a <= b THEN a ELSE b

SetMax(S) == CHOOSE x \in S : \A y \in S : y <= x

----------------------------------------------------------------------------
(* estimate_tokens *)

\* len(re.findall(r'\b[a-zA-Z]+\b', text)): a match is a maximal run of word
\* characters that consists of Latin letters only.
WordStarts(t) ==
    { i \in 1..Len(t) :
        /\ t[i] \in Letters
        /\ (i = 1 \/ ~IsWordChar(t[i - 1]))
        /\ \E j \in i..Len(t) :
              /\ \A k \in i..j : t[k] \in Letters
              /\ (j = Len(t) \/ ~IsWordChar(t[j + 1])) }

ChineseCharCount(t) == Cardinality({ i \in 1..Len(t) : t[i] \in CJK })

EnglishWordCount(t) == Cardinality(WordStarts(t))

\* Mutant: a word weighs two tokens.
TokenFormulaWordsDouble(c, w, n) == (3 * c + 4 * w + (n - c - w)) \div 2

\* Mutant: a word weighs nothing, its characters are not counted as other.
TokenFormulaWordsFree(c, w, n) == (3 * c + (n - c - 2 * w)) \div 2

\* int(c * 1.5 + w + (n - c - w) * 0.5); the sum is a non-negative multiple
\* of 0.5, so int() is the floor of (3c + 2w + (n - c - w)) / 2.
TokenFormula(c, w, n) == (3 * c + 2 * w + (n - c - w)) \div 2

EstimateTokens(t) ==
    TokenFormula(ChineseCharCount(t), EnglishWordCount(t), Len(t))

----------------------------------------------------------------------------
(* split_text_into_chunks *)

\* text.rfind(sub, start, end): the highest 0-based index i with
\* start <= i, i + len(sub) <= end and text[i:i+len(sub)] = sub; -1 if none.
RFind(t, sub, start, end) ==
    LET hits == { i \in start..(end - Len(sub)) :
                      Slice(t, i, i + Len(sub)) = sub }
    IN  IF hits = {} THEN -1 ELSE SetMax(hits)

\* Mutant: of the paragraph break and the sentence terminator past the
\* midpoint, the one nearer the target is taken.
CutEndNearest(t, start, chunk_size) ==
    LET end == Min2(start + chunk_size, Len(t))
        mid == start + chunk_size \div 2
        paragraph_end == RFind(t, <<"nl", "nl">>, start, end)
        sentence_end ==
            Max2(Max2(RFind(t, <<"dot", "sp">>, start, end),
                      RFind(t, <<"istop">>, start, end)),
                 Max2(RFind(t, <<"iexcl">>, start, end),
                      RFind(t, <<"iq">>, start, end)))
        by_paragraph == IF paragraph_end > mid THEN paragraph_end + 2 ELSE -1
        by_sentence == IF sentence_end > mid THEN sentence_end + 1 ELSE -1
    IN  IF Max2(by_paragraph, by_sentence) # -1
        THEN Max2(by_paragraph, by_sentence) ELSE end

\* The end of the chunk that starts at `start` (one pass of the loop body).
CutEnd(t, start, chunk_size) ==
    LET end == Min2(start + chunk_size, Len(t))
        paragraph_end == RFind(t, <<"nl", "nl">>, start, end)
        sentence_end ==
            Max2(Max2(RFind(t, <<"dot", "sp">>, start, end),
                      RFind(t, <<"istop">>, start, end)),
                 Max2(RFind(t, <<"iexcl">>, start, end),
                      RFind(t, <<"iq">>, start, end)))
    IN  IF paragraph_end # -1 /\ paragraph_end > start + chunk_size \div 2
        THEN paragraph_end + 2
        ELSE IF sentence_end # -1 /\ sentence_end > start + chunk_size \div 2
             THEN sentence_end + 1
             ELSE end

\* Mutant: the next chunk starts one character after the cut.
RECURSIVE SplitLoopSkip(_, _, _, _, _, _)
SplitLoopSkip(t, chunk_size, i, num_chunks, start, acc) ==
    IF i >= num_chunks
    THEN Append(acc, Slice(t, start, Len(t)))
    ELSE LET end == CutEnd(t, start, chunk_size)
         IN  SplitLoopSkip(t, chunk_size, i + 1, num_chunks,
                           Min2(end + 1, Len(t)),
                           Append(acc, Slice(t, start, end)))

\* for i in range(1, num_chunks): ...; chunks.append(text[start:])
RECURSIVE SplitLoop(_, _, _, _, _, _)
SplitLoop(t, chunk_size, i, num_chunks, start, acc) ==
    IF i >= num_chunks
    THEN Append(acc, Slice(t, start, Len(t)))
    ELSE LET end == CutEnd(t, start, chunk_size)
         IN  SplitLoop(t, chunk_size, i + 1, num_chunks, end,
                       Append(acc, Slice(t, start, end)))

NumChunks(t, m) == Ceil(EstimateTokens(t), m)

\* Mutant: the chunk size is computed for one chunk more than are cut.
ChunkSizeShort(t, m) == Len(t) \div (NumChunks(t, m) + 1)

\* chunk_size = len(text) // num_chunks
ChunkSize(t, m) == Len(t) \div NumChunks(t, m)

\* Mutant: the short-text path returns no chunk for a text without tokens.
SplitDropsEmpty(t, m) ==
    IF EstimateTokens(t) <= m
    THEN IF EstimateTokens(t) = 0 THEN <<>> ELSE <<t>>
    ELSE SplitLoop(t, ChunkSize(t, m), 1, NumChunks(t, m), 0, <<>>)

SplitTextIntoChunks(t, m) ==
    IF EstimateTokens(t) <= m
    THEN <<t>>
    ELSE SplitLoop(t, ChunkSize(t, m), 1, NumChunks(t, m), 0, <<>>)

----------------------------------------------------------------------------
(* JSON values as the orchestrators see them.  A mapping is a function     *)
(* whose DOMAIN is the set of keys present; a stage result is wrapped as   *)
(* [kind |-> "dict", d |-> mapping] or [kind |-> "number"] (valid JSON     *)
(* that is no mapping).  Free text is a sequence of pieces, "" is <<>>.    *)

NoResult == [kind |-> "none"]

Dict(d) == [kind |-> "dict", d |-> d]

JsonNumber == [kind |-> "number"]

IsDict(r) == r.kind = "dict"

\* key in mapping
HasKey(r, k) == k \in DOMAIN r.d

\* mapping.get(key, default)
Get(r, k, default) == IF k \in DOMAIN r.d THEN r.d[k] ELSE default

Restrict(d, K) == [k \in K |-> d[k]]

----------------------------------------------------------------------------
(* The parts of the state a specification does not use stay at rest. *)

IdleSplit ==
    /\ text = <<>>
    /\ max_tokens = 1
    /\ chunks = <<>>
    /\ split_pc = "idle"

IdleClient ==
    /\ cl_pc = "idle"
    /\ cl_max_retries = 0
    /\ cl_retry_count = 0
    /\ cl_requests = 0
    /\ cl_last_error = "none"
    /\ cl_result = NoResult

IdleBook ==
    /\ bk_pc = "idle"
    /\ bk_n = 0
    /\ bk_i = 0
    /\ base_structure = NoResult
    /\ chunk_results = <<>>
    /\ final_integration = NoResult
    /\ final_result = NoResult
    /\ bk_return = NoResult

IdlePdf ==
    /\ pdf_pc = "idle"
    /\ doc = [len |-> 0, cjk |-> 0, words |-> 0]
    /\ pdf_chunks = 0
    /\ important_themes = <<>>
    /\ pdf_batch = 0
    /\ base_data = NoResult
    /\ pdf_log = <<>>
    /\ pdf_final = NoResult
    /\ pdf_return = NoResult

IdleExtract ==
    /\ ex_pc = "idle"
    /\ ex_max_retries = 0
    /\ ex_attempt = 0
    /\ ex_text_len = 0
    /\ ex_log = <<>>
    /\ ex_result = NoResult

NoShape == [kind |-> "none"]

IdleJson ==
    /\ js_pc = "idle"
    /\ js_shape = NoShape
    /\ js_text = <<>>
    /\ js_result = NoResult
    /\ js_again = NoResult

IdleBatch ==
    /\ bt_pc = "idle"
    /\ bt_found = <<>>
    /\ bt_max_files = 0
    /\ pdf_files = <<>>
    /\ bt_i = 0
    /\ results = <<>>
    /\ bt_sent = <<>>
    /\ bt_report = NoResult

IdleSections ==
    /\ sec_pc = "idle"
    /\ sec_analyzer = "none"
    /\ DEEPSEEK_API_KEY = "None"
    /\ sec_pdf_text = "not_read"
    /\ sections = <<>>
    /\ sec_requests = 0
    /\ sec_report = NoResult

IdleMarkdown ==
    /\ md_pc = "idle"
    /\ md_program = "none"
    /\ md_data = <<>>
    /\ md_output = <<>>
    /\ md_ok = FALSE

IdleAlias ==
    /\ al_pc = "idle"
    /\ al_data = NoResult
    /\ al_result = NoResult

IdleTranslate ==
    /\ tr_pc = "idle"
    /\ tr_text = "none"
    /\ tr_max_retries = 0
    /\ tr_retry_count = 0
    /\ tr_requests = <<>>
    /\ tr_sleeps = <<>>
    /\ tr_result = NoResult

IdleEstimate ==
    /\ es_pc = "idle"
    /\ es_text = <<>>
    /\ es_suffix = <<>>
    /\ es_tokens = 0
    /\ es_extended = 0

IdleTruncate ==
    /\ tc_pc = "idle"
    /\ tc_analyzer = "none"
    /\ tc_text = NoResult
    /\ tc_result = NoResult

IdleSlice ==
    /\ sl_pc = "idle"
    /\ sl_analyzer = "none"
    /\ content = <<>>
    /\ sl_slices = <<>>

IdleRest ==
    /\ IdleJson
    /\ IdleBatch
    /\ IdleSections
    /\ IdleMarkdown
    /\ IdleAlias
    /\ IdleTranslate
    /\ IdleEstimate
    /\ IdleTruncate
    /\ IdleSlice

----------------------------------------------------------------------------
(* book_analyzer.DeepseekClient.extract_content *)

\* return {"error": "達到最大重試次數後仍無法獲取內容"}
RetriesExhaustedMarker == Dict([error |-> "max_retries_reached"])

\* ensure_json_format's marker: {"error": "JSON 解析錯誤", "raw_text": text}
ParseErrorMarker == Dict([error |-> "json_parse_error", raw_text |-> "raw"])

\* Mutant: the loop admits one attempt more (<= instead of <).
WhileRetryOffByOne(retry_count, max_retries) == retry_count <= max_retries

\* while retry_count < max_retries
WhileRetry(retry_count, max_retries) == retry_count < max_retries

\* retry_count = 0 at the start of a call of extract_content
ClientCallStarts ==
    /\ cl_pc' = "loop"
    /\ cl_retry_count' = 0
    /\ cl_requests' = 0
    /\ cl_last_error' = "none"
    /\ cl_result' = NoResult
    /\ UNCHANGED cl_max_retries

\* One failed pass of the loop body: the request was sent, the failure is
\* logged, retry_count += 1 (time.sleep(5) has no effect on the state).
ClientFailedAttempt(failure) ==
    /\ cl_pc = "loop"
    /\ WhileRetry(cl_retry_count, cl_max_retries)
    /\ cl_requests' = cl_requests + 1
    /\ cl_retry_count' = cl_retry_count + 1
    /\ cl_last_error' = failure
    /\ UNCHANGED <<cl_pc, cl_max_retries, cl_result, bookVars, splitVars, pdfVars, extractVars, restVars>>

\* response.status_code != 200
ClientAttemptNon200 == ClientFailedAttempt("non200")

\* status 200 with empty content
ClientAttemptEmpty == ClientFailedAttempt("empty")

\* requests.post or response.json() raises; caught by except Exception
ClientAttemptException == ClientFailedAttempt("exception")

\* The values ensure_json_format(cc.convert(content)) can give for the stage
\* whose prompt was sent: a mapping of the stage's schema (any of its keys may
\* be missing), the parse-error marker, or valid JSON that is no mapping.
BaseDicts ==
    { [title |-> "Book", author |-> "Auth",
       estimated_structure |-> <<"s1", "s2">>],
      [title |-> "", author |-> ""],
      [title |-> "Book", author |-> ""],
      [author |-> "Auth", estimated_structure |-> <<"s1">>],
      [overall_theme |-> <<"theme">>] }

ChunkDicts ==
    { [identified_chapters |-> <<"k1">>, partial_overview |-> <<"ov">>,
       partial_evaluation |-> <<"ev">>],
      [identified_chapters |-> <<"k2", "k3">>, title |-> "Other",
       author |-> "Other"],
      [partial_overview |-> <<"ov">>],
      [identified_chapters |-> <<>>, partial_evaluation |-> <<"ev">>] }

FinalDicts ==
    { [comprehensive_overview |-> <<"cov">>, reading_guide |-> <<"guide">>,
       final_evaluation |-> <<"fev">>, title |-> "Other", author |-> "Other"],
      [reading_guide |-> <<"guide">>],
      [title |-> "Other"] }

BaseResults == { Dict(d) : d \in BaseDicts } \cup {ParseErrorMarker, JsonNumber}

ChunkResults == { Dict(d) : d \in ChunkDicts } \cup {ParseErrorMarker, JsonNumber}

FinalResults == { Dict(d) : d \in FinalDicts } \cup {ParseErrorMarker, JsonNumber}

ResultsOf(stage) ==
    CASE stage = "base" -> BaseResults
      [] stage = "chunk" -> ChunkResults
      [] OTHER -> FinalResults

\* status 200 with content: return ensure_json_format(content)
ClientAttemptContent ==
    /\ cl_pc = "loop"
    /\ WhileRetry(cl_retry_count, cl_max_retries)
    /\ cl_requests' = cl_requests + 1
    /\ \E r \in ResultsOf(bk_pc) : cl_result' = r
    /\ cl_pc' = "returned"
    /\ UNCHANGED <<cl_max_retries, cl_retry_count, cl_last_error, bookVars,
                   splitVars, pdfVars, extractVars, restVars>>

\* the loop condition is false: return the error marker
ClientExhausted ==
    /\ cl_pc = "loop"
    /\ ~WhileRetry(cl_retry_count, cl_max_retries)
    /\ cl_result' = RetriesExhaustedMarker
    /\ cl_pc' = "returned"
    /\ UNCHANGED <<cl_max_retries, cl_retry_count, cl_requests, cl_last_error,
                   bookVars, splitVars, pdfVars, extractVars, restVars>>

----------------------------------------------------------------------------
(* book_analyzer.process_large_book *)

Raised(exc) == [kind |-> "raise", exc |-> exc]

\* Mutant: the report is started without the title of the base stage.
NewFinalResultUntitled(base) ==
    [title |-> "unknown_title",
     author |-> Get(base, "author", "unknown_author"),
     overview |-> <<>>,
     table_of_contents |-> Get(base, "estimated_structure", <<>>),
     chapter_analysis |-> <<>>,
     reading_guide |-> <<>>,
     evaluation |-> <<>>]

\* final_result = {"title": base_structure.get("title", "未知書名"), ...}
NewFinalResult(base) ==
    [title |-> Get(base, "title", "unknown_title"),
     author |-> Get(base, "author", "unknown_author"),
     overview |-> <<>>,
     table_of_contents |-> Get(base, "estimated_structure", <<>>),
     chapter_analysis |-> <<>>,
     reading_guide |-> <<>>,
     evaluation |-> <<>>]

\* The partial_overview / partial_evaluation branch of the chunk loop.
MergePartial(old, i, r, key) ==
    IF i = 0 /\ HasKey(r, key) THEN Get(r, key, <<>>)
    ELSE IF HasKey(r, key) THEN old \o <<" ">> \o Get(r, key, <<>>)
    ELSE old

\* Mutant: the chapters of a chunk replace the list instead of extending it.
ChunkMergeReplaces(fr, i, r) ==
    IF HasKey(r, "error") THEN fr
    ELSE [fr EXCEPT
            !.chapter_analysis =
                IF HasKey(r, "identified_chapters")
                THEN r.d.identified_chapters ELSE @,
            !.overview = MergePartial(@, i, r, "partial_overview"),
            !.evaluation = MergePartial(@, i, r, "partial_evaluation")]

\* One pass of the chunk loop body on a mapping: `continue` on an error
\* marker, otherwise merge the chunk's contribution.
ChunkMerge(fr, i, r) ==
    IF HasKey(r, "error") THEN fr
    ELSE [fr EXCEPT
            !.chapter_analysis =
                IF HasKey(r, "identified_chapters")
                THEN @ \o r.d.identified_chapters ELSE @,
            !.overview = MergePartial(@, i, r, "partial_overview"),
            !.evaluation = MergePartial(@, i, r, "partial_evaluation")]

\* Mutant: the integration result is merged key by key, title included.
FinalMergeUpdatesAll(fr, r) ==
    IF HasKey(r, "error") THEN fr
    ELSE [fr EXCEPT
            !.title = Get(r, "title", @),
            !.author = Get(r, "author", @),
            !.overview = Get(r, "comprehensive_overview", @),
            !.reading_guide = Get(r, "reading_guide", <<>>),
            !.evaluation = Get(r, "final_evaluation", @)]

\* if "error" not in final_integration: ...
FinalMerge(fr, r) ==
    IF HasKey(r, "error") THEN fr
    ELSE [fr EXCEPT
            !.overview = Get(r, "comprehensive_overview", @),
            !.reading_guide = Get(r, "reading_guide", <<>>),
            !.evaluation = Get(r, "final_evaluation", @)]

\* Mutant: a failed base stage falls back to an empty structure.
BaseAbortsNever(base) == FALSE

\* if "error" in base_structure: return base_structure
BaseAborts(base) == HasKey(base, "error")

InitBook ==
    /\ IdleSplit
    /\ IdlePdf
    /\ IdleExtract
    /\ IdleRest
    /\ bk_n \in 1..MaxChunks
    /\ cl_max_retries \in 1..MaxRetries
    /\ bk_pc = "base"
    /\ bk_i = 0
    /\ base_structure = NoResult
    /\ chunk_results = <<>>
    /\ final_integration = NoResult
    /\ final_result = NoResult
    /\ bk_return = NoResult
    /\ cl_pc = "loop"
    /\ cl_retry_count = 0
    /\ cl_requests = 0
    /\ cl_last_error = "none"
    /\ cl_result = NoResult

\* "error" in x raises TypeError when x is a JSON number.
BookRaises ==
    /\ bk_pc' = "done"
    /\ bk_return' = Raised("TypeError")
    /\ UNCHANGED <<cl_pc, cl_max_retries, cl_retry_count, cl_requests,
                   cl_last_error, cl_result>>

\* base_structure = client.extract_content(first_prompt) has returned.
BaseStage ==
    /\ bk_pc = "base"
    /\ cl_pc = "returned"
    /\ base_structure' = cl_result
    /\ IF ~IsDict(cl_result)
       THEN BookRaises /\ UNCHANGED <<final_result, bk_i>>
       ELSE IF BaseAborts(cl_result)
       THEN /\ bk_pc' = "done"
            /\ bk_return' = cl_result
            /\ UNCHANGED <<final_result, bk_i, clientVars>>
       ELSE /\ final_result' = NewFinalResult(cl_result)
            /\ bk_pc' = "chunk"
            /\ bk_i' = 0
            /\ ClientCallStarts
            /\ UNCHANGED bk_return
    /\ UNCHANGED <<bk_n, chunk_results, final_integration, splitVars, pdfVars, extractVars, restVars>>

\* chunk_result = client.extract_content(chunk_prompt) has returned for
\* chunk bk_i.
ChunkStage ==
    /\ bk_pc = "chunk"
    /\ cl_pc = "returned"
    /\ chunk_results' = Append(chunk_results, cl_result)
    /\ IF ~IsDict(cl_result)
       THEN BookRaises /\ UNCHANGED <<final_result, bk_i>>
       ELSE /\ final_result' = ChunkMerge(final_result, bk_i, cl_result)
            /\ bk_i' = bk_i + 1
            /\ bk_pc' = IF bk_i + 1 < bk_n THEN "chunk" ELSE "final"
            /\ ClientCallStarts
            /\ UNCHANGED bk_return
    /\ UNCHANGED <<bk_n, base_structure, final_integration, splitVars, pdfVars, extractVars, restVars>>

\* final_integration = client.extract_content(final_prompt) has returned.
FinalStage ==
    /\ bk_pc = "final"
    /\ cl_pc = "returned"
    /\ final_integration' = cl_result
    /\ IF ~IsDict(cl_result)
       THEN BookRaises /\ UNCHANGED final_result
       ELSE /\ final_result' = FinalMerge(final_result, cl_result)
            /\ bk_pc' = "done"
            /\ bk_return' = Dict(final_result')
            /\ UNCHANGED clientVars
    /\ UNCHANGED <<bk_n, bk_i, base_structure, chunk_results, splitVars, pdfVars, extractVars, restVars>>

NextBook ==
    \/ ClientAttemptNon200
    \/ ClientAttemptEmpty
    \/ ClientAttemptException
    \/ ClientAttemptContent
    \/ ClientExhausted
    \/ BaseStage
    \/ ChunkStage
    \/ FinalStage

SpecBook == InitBook /\ [][NextBook]_vars

----------------------------------------------------------------------------
(* deepseek_processor: DeepseekClient.extract_content (one request, no     *)
(* retry), analyze_pdf_with_deepseek and process_large_pdf.                *)
(*                                                                         *)
(* A response text is described by what the code can observe of it:        *)
(* whole = json.loads(text) (or Unparseable), fence = whether the regex    *)
(* ```json ... ``` matches, fenced = json.loads of the fenced part.        *)

SinglePassCeiling == 7500
LargePdfThreshold == 40000
LargePdfChunkTokens == 25000
SampleThreshold == 10
MaxThemes == 5
ThemeBatch == 3

Unparseable == [kind |-> "unparseable"]

PyNone == [kind |-> "None"]

TextOf(whole, fence, fenced) ==
    [kind |-> "text", whole |-> whole, fence |-> fence, fenced |-> fenced]

\* json.dumps(value): parses back to value and holds no fenced block.
Dumps(v) == TextOf(v, FALSE, Unparseable)

Parses(t) == t.whole.kind # "unparseable"

\* A JSON array value, and a value of another type under the same key.
List(items) == [islist |-> TRUE, items |-> items]
NotList == [islist |-> FALSE]

\* DeepseekClient.extract_content(prompt) for one HTTP outcome.
PdfClientExtract(o) ==
    IF o.status = "ok"
    THEN IF o.content.fence /\ o.content.fenced.kind # "unparseable"
         THEN Dumps(o.content.fenced)
         ELSE o.content
    ELSE Dumps(Dict([error |-> o.status]))

\* json_match = re.search(fence, response); json.loads(json_match.group(1))
FencedFallback(t) == IF t.fence THEN t.fenced ELSE Unparseable

\* The mapping a later stage works on: the try branch when the response
\* parses to a mapping, else the except branch's fenced fallback; a value
\* that is no mapping raises inside the bare try/except and gives nothing.
StageData(t) ==
    IF Parses(t) /\ IsDict(t.whole) THEN t.whole
    ELSE IF IsDict(FencedFallback(t)) THEN FencedFallback(t)
    ELSE Unparseable

\* base_data after the try / except json.JSONDecodeError of the base stage.
BaseData(t) == IF Parses(t) THEN t.whole ELSE FencedFallback(t)

DefaultThemes == <<"d1", "d2", "d3", "d4", "d5">>

\* main_themes = base_data.get("main_themes", []), defaulted when empty,
\* then main_themes[:min(5, len(main_themes))]
ImportantThemes(base) ==
    LET main == Get(base, "main_themes", <<>>)
        themes == IF main = <<>> THEN DefaultThemes ELSE main
    IN  SubSeq(themes, 1, Min2(MaxThemes, Len(themes)))

\* final_result = {"title": book_title, "author": author_name, ...}
NewPdfResult(base) ==
    [title |-> Get(base, "full_title", Get(base, "title", "title_not_found")),
     author |-> Get(base, "author", "author_not_found"),
     author_background |-> Get(base, "author_background", <<>>),
     book_overview |-> Get(base, "book_overview", <<>>),
     themes_analysis |-> <<>>,
     key_concepts |-> <<>>,
     critical_analysis |-> <<>>,
     comparative_analysis |-> <<>>,
     reader_recommendations |-> <<>>,
     conclusion |-> <<>>]

HasList(data, key) ==
    /\ IsDict(data)
    /\ HasKey(data, key)
    /\ data.d[key].islist

\* final_result["themes_analysis"].extend(themes_data["themes_analysis"])
ThemesMerge(fr, data) ==
    IF HasList(data, "themes_analysis")
    THEN [fr EXCEPT !.themes_analysis = @ \o data.d.themes_analysis.items]
    ELSE fr

\* final_result["key_concepts"] = concepts_data["key_concepts"]
ConceptsMerge(fr, data) ==
    IF HasList(data, "key_concepts")
    THEN [fr EXCEPT !.key_concepts = data.d.key_concepts.items]
    ELSE fr

AnalysisFields ==
    {"critical_analysis", "comparative_analysis", "reader_recommendations",
     "conclusion"}

\* for field in [...]: if field in analysis_data: final_result[field] = ...
AnalysisMerge(fr, data) ==
    IF IsDict(data)
    THEN [f \in DOMAIN fr |->
            IF f \in AnalysisFields /\ HasKey(data, f) THEN data.d[f]
            ELSE fr[f]]
    ELSE fr

\* token_estimate = len(text) / 0.75 * 1.23; token_estimate > 7500
TokenEstimateExceeds(len) == 492 * len > SinglePassCeiling * 300

DocTokens(d) == TokenFormula(d.cjk, d.words, d.len)

\* len(sample_chunks)
SampleCount(n) ==
    IF n > SampleThreshold
    THEN Max2(5, n \div 5) + Max2(1, n \div 10)
    ELSE n

\* range(0, len(important_themes), 3)
BatchCount(themes) == Ceil(Len(themes), ThemeBatch)

\* The documents explored: lengths around the two thresholds, all CJK or
\* all punctuation/whitespace.
DocLengths == {0, 4573, 4574, 26667, 80000, 200000}

Docs ==
    { [len |-> n, cjk |-> n, words |-> 0] : n \in DocLengths } \cup
    { [len |-> n, cjk |-> 0, words |-> 0] : n \in DocLengths }

PdfBaseValues ==
    { Dict([title |-> "Book", full_title |-> "BookSub", author |-> "Auth",
            author_background |-> <<"bg">>, book_overview |-> <<"ov">>,
            main_themes |-> <<"t1", "t2", "t3", "t4", "t5", "t6">>]),
      Dict([title |-> "Book", main_themes |-> <<"t1">>]),
      Dict([author |-> "Auth"]),
      JsonNumber }

PdfThemesValues ==
    { Dict([themes_analysis |-> List(<<"th1">>)]),
      Dict([themes_analysis |-> List(<<"th2", "th3">>)]),
      Dict([themes_analysis |-> NotList]),
      JsonNumber }

PdfConceptsValues ==
    { Dict([key_concepts |-> List(<<"c1", "c2">>)]),
      Dict([title |-> "Other"]),
      JsonNumber }

PdfAnalysisValues ==
    { Dict([critical_analysis |-> <<"crit">>,
            comparative_analysis |-> <<"comp">>,
            reader_recommendations |-> <<"rec">>,
            conclusion |-> <<"concl">>]),
      Dict([conclusion |-> <<"concl">>, title |-> "Other"]),
      JsonNumber }

PdfValuesOf(stage) ==
    CASE stage = "base" -> PdfBaseValues
      [] stage = "themes" -> PdfThemesValues
      [] stage = "concepts" -> PdfConceptsValues
      [] stage = "analysis" -> PdfAnalysisValues
      [] OTHER -> PdfBaseValues

\* What one HTTP request of a stage can end with: a non-200 status, an
\* exception, or status 200 with a content that holds a fenced block (valid
\* or not), is bare JSON, or is prose.
PdfOutcomes(stage) ==
    { [status |-> "non200"], [status |-> "exception"] } \cup
    { [status |-> "ok", content |-> TextOf(Unparseable, TRUE, v)] :
        v \in PdfValuesOf(stage) \cup {Unparseable} } \cup
    { [status |-> "ok", content |-> TextOf(v, FALSE, Unparseable)] :
        v \in {JsonNumber, Unparseable} }

PdfErrorText(message) == Dumps(Dict([error |-> message]))

InitPdf ==
    /\ IdleSplit
    /\ IdleClient
    /\ IdleBook
    /\ IdleExtract
    /\ IdleRest
    /\ pdf_pc = "start"
    /\ doc \in Docs
    /\ pdf_chunks = 0
    /\ important_themes = <<>>
    /\ pdf_batch = 0
    /\ base_data = NoResult
    /\ pdf_log = <<>>
    /\ pdf_final = NoResult
    /\ pdf_return = NoResult

Logged(stage, response) == [stage |-> stage, response |-> response]

\* analyze_pdf_with_deepseek below the ceiling: one completion call, whose
\* response is returned as it is.
AnalyzeSinglePass ==
    /\ pdf_pc = "start"
    /\ ~TokenEstimateExceeds(doc.len)
    /\ \E o \in PdfOutcomes("single") :
          /\ pdf_return' = PdfClientExtract(o)
          /\ pdf_log' = Append(pdf_log, Logged("single", PdfClientExtract(o)))
    /\ pdf_pc' = "done"
    /\ UNCHANGED <<doc, pdf_chunks, important_themes, pdf_batch, base_data,
                   pdf_final, splitVars, clientVars, bookVars, extractVars, restVars>>

\* process_large_pdf with estimated_tokens <= 40000: the body of the `if` is
\* skipped and the function ends without a return statement.
LargePdfFallsThrough ==
    /\ pdf_pc = "start"
    /\ TokenEstimateExceeds(doc.len)
    /\ ~(DocTokens(doc) > LargePdfThreshold)
    /\ pdf_return' = PyNone
    /\ pdf_pc' = "done"
    /\ UNCHANGED <<doc, pdf_chunks, important_themes, pdf_batch, base_data,
                   pdf_log, pdf_final, splitVars, clientVars, bookVars, extractVars, restVars>>

\* process_large_pdf with estimated_tokens > 40000: split and sample.
LargePdfStarts ==
    /\ pdf_pc = "start"
    /\ TokenEstimateExceeds(doc.len)
    /\ DocTokens(doc) > LargePdfThreshold
    /\ pdf_chunks' = SampleCount(Ceil(DocTokens(doc), LargePdfChunkTokens))
    /\ pdf_pc' = "base"
    /\ UNCHANGED <<doc, important_themes, pdf_batch, base_data, pdf_log,
                   pdf_final, pdf_return, splitVars, clientVars, bookVars, extractVars, restVars>>

\* Stage 1: base information.
PdfBaseStage ==
    /\ pdf_pc = "base"
    /\ \E o \in PdfOutcomes("base") :
        LET response == PdfClientExtract(o)
            data == BaseData(response)
        IN  /\ pdf_log' = Append(pdf_log, Logged("base", response))
            /\ base_data' = data
            /\ IF data.kind = "unparseable"
               THEN /\ pdf_return' = PdfErrorText("cannot_parse_base")
                    /\ pdf_pc' = "done"
                    /\ UNCHANGED <<important_themes, pdf_final>>
               ELSE IF ~IsDict(data)
               THEN \* base_data.get raises; caught by except Exception
                    /\ pdf_return' = PdfErrorText("exception")
                    /\ pdf_pc' = "done"
                    /\ UNCHANGED <<important_themes, pdf_final>>
               ELSE /\ important_themes' = ImportantThemes(data)
                    /\ pdf_final' = NewPdfResult(data)
                    /\ pdf_pc' = "themes"
                    /\ UNCHANGED pdf_return
    /\ pdf_batch' = 0
    /\ UNCHANGED <<doc, pdf_chunks, splitVars, clientVars, bookVars, extractVars, restVars>>

\* Stage 2: one batch of at most three themes.
PdfThemesStage ==
    /\ pdf_pc = "themes"
    /\ \E o \in PdfOutcomes("themes") :
        LET response == PdfClientExtract(o)
        IN  /\ pdf_log' = Append(pdf_log, Logged("themes", response))
            /\ pdf_final' = ThemesMerge(pdf_final, StageData(response))
    /\ pdf_batch' = pdf_batch + 1
    /\ pdf_pc' = IF pdf_batch + 1 < BatchCount(important_themes)
                 THEN "themes" ELSE "concepts"
    /\ UNCHANGED <<doc, pdf_chunks, important_themes, base_data, pdf_return,
                   splitVars, clientVars, bookVars, extractVars, restVars>>

\* Stage 3: key concepts.
PdfConceptsStage ==
    /\ pdf_pc = "concepts"
    /\ \E o \in PdfOutcomes("concepts") :
        LET response == PdfClientExtract(o)
        IN  /\ pdf_log' = Append(pdf_log, Logged("concepts", response))
            /\ pdf_final' = ConceptsMerge(pdf_final, StageData(response))
    /\ pdf_pc' = "analysis"
    /\ UNCHANGED <<doc, pdf_chunks, important_themes, pdf_batch, base_data,
                   pdf_return, splitVars, clientVars, bookVars, extractVars, restVars>>

\* Stage 4: critical / comparative analysis, recommendations, conclusion;
\* then return json.dumps(final_result).
PdfAnalysisStage ==
    /\ pdf_pc = "analysis"
    /\ \E o \in PdfOutcomes("analysis") :
        LET response == PdfClientExtract(o)
        IN  /\ pdf_log' = Append(pdf_log, Logged("analysis", response))
            /\ pdf_final' = AnalysisMerge(pdf_final, StageData(response))
    /\ pdf_return' = Dumps(Dict(pdf_final'))
    /\ pdf_pc' = "done"
    /\ UNCHANGED <<doc, pdf_chunks, important_themes, pdf_batch, base_data,
                   splitVars, clientVars, bookVars, extractVars, restVars>>

NextPdf ==
    \/ AnalyzeSinglePass
    \/ LargePdfFallsThrough
    \/ LargePdfStarts
    \/ PdfBaseStage
    \/ PdfThemesStage
    \/ PdfConceptsStage
    \/ PdfAnalysisStage

SpecPdf == InitPdf /\ [][NextPdf]_vars

----------------------------------------------------------------------------
(* deepseek_processor.extract_content(input_file, max_retries): the        *)
(* single-pass analysis with its retry loop.                               *)

TextLimit == 100000

\* pdf_text[:100000] when len(pdf_text) > 100000
Truncated(len) == IF len > TextLimit THEN TextLimit ELSE len

\* d.get(k1, d.get(k2, ... default)): the first key of `keys` present in d.
RECURSIVE GetChain(_, _, _)
GetChain(r, keys, default) ==
    IF keys = <<>> THEN default
    ELSE IF HasKey(r, Head(keys)) THEN r.d[Head(keys)]
    ELSE GetChain(r, Tail(keys), default)

\* {"title": chapter.get("title", "無標題章節"), "content": chapter.get(...)}
StandardChapter(ch) ==
    [title |-> IF "title" \in DOMAIN ch THEN ch.title ELSE "untitled_chapter",
     content |-> IF "content" \in DOMAIN ch THEN ch.content ELSE <<>>]

\* The standardised result built from a parsed mapping.
Standardise(data) ==
    LET chs == GetChain(data, <<"chapter_analysis", "chapters",
                                "zh_chapter_details">>, <<>>)
    IN  [title |-> GetChain(data, <<"title", "zh_title">>, "no_title"),
         summary |-> GetChain(data, <<"executive_summary", "summary",
                                      "zh_summary", "zh_key_summary">>,
                              <<"no_summary">>),
         toc |-> GetChain(data, <<"table_of_contents", "toc", "zh_toc">>,
                          <<"no_toc">>),
         chapters |-> [k \in 1..Len(chs) |-> StandardChapter(chs[k])]]

\* What an attempt ends with: "none" when the response parses to a mapping,
\* else the exception raised inside the loop body.
AttemptError(response) ==
    IF ~Parses(response) THEN "json_decode_error"
    ELSE IF ~IsDict(response.whole) THEN "attribute_error"
    ELSE "none"

\* Mutant: the last attempt is recognised one pass too late.
IsLastAttemptOffByOne(attempt, max_retries) == attempt = max_retries

\* if attempt == max_retries - 1
IsLastAttempt(attempt, max_retries) == attempt = max_retries - 1

\* raise Exception(f"分析過程失敗，已嘗試 {max_retries} 次: {str(e)}")
FailedAfter(max_retries, error) ==
    Raised(<<"failed_after", max_retries, error>>)

\* raise Exception("所有分析嘗試均失敗")
AllAttemptsFailedError == Raised(<<"all_attempts_failed">>)

ExtractValues ==
    { Dict([title |-> "Book", executive_summary |-> <<"exec">>,
            summary |-> <<"sum">>, table_of_contents |-> <<"toc">>,
            chapters |-> << [title |-> "Ch1", content |-> <<"body">>],
                            [content |-> <<"body2">>] >>]),
      Dict([zh_title |-> "Shu", zh_summary |-> <<"zhsum">>]),
      JsonNumber }

ExtractOutcomes ==
    { [status |-> "non200"], [status |-> "exception"] } \cup
    { [status |-> "ok", content |-> TextOf(Unparseable, TRUE, v)] :
        v \in ExtractValues \cup {Unparseable} } \cup
    { [status |-> "ok", content |-> TextOf(v, FALSE, Unparseable)] :
        v \in {JsonNumber, Unparseable} }

ExtractTextLengths == {50, 100000, 150000}

InitExtract ==
    /\ IdleSplit
    /\ IdleClient
    /\ IdleBook
    /\ IdlePdf
    /\ IdleRest
    /\ ex_pc = "loop"
    /\ ex_max_retries \in 0..MaxRetries
    /\ ex_attempt = 0
    /\ \E n \in ExtractTextLengths : ex_text_len = Truncated(n)
    /\ ex_log = <<>>
    /\ ex_result = NoResult

\* One pass of `for attempt in range(max_retries)`: the client call and the
\* handling of its response.
ExtractAttempt ==
    /\ ex_pc = "loop"
    /\ ex_attempt < ex_max_retries
    /\ \E o \in ExtractOutcomes :
        LET response == PdfClientExtract(o)
            error == AttemptError(response)
        IN  /\ ex_log' = Append(ex_log, [http |-> o.status, error |-> error])
            /\ IF error = "none"
               THEN /\ ex_result' = Dict(Standardise(response.whole))
                    /\ ex_pc' = "returned"
                    /\ UNCHANGED ex_attempt
               ELSE IF IsLastAttempt(ex_attempt, ex_max_retries)
               THEN /\ ex_result' = FailedAfter(ex_max_retries, error)
                    /\ ex_pc' = "raised"
                    /\ UNCHANGED ex_attempt
               ELSE \* time.sleep(2 ** attempt), next pass
                    /\ ex_attempt' = ex_attempt + 1
                    /\ UNCHANGED <<ex_pc, ex_result>>
    /\ UNCHANGED <<ex_max_retries, ex_text_len, splitVars, clientVars,
                   bookVars, pdfVars, restVars>>

\* The loop ends without a return: raise Exception("所有分析嘗試均失敗").
ExtractLoopEnds ==
    /\ ex_pc = "loop"
    /\ ~(ex_attempt < ex_max_retries)
    /\ ex_result' = AllAttemptsFailedError
    /\ ex_pc' = "raised"
    /\ UNCHANGED <<ex_max_retries, ex_attempt, ex_text_len, ex_log, splitVars,
                   clientVars, bookVars, pdfVars, restVars>>

NextExtract ==
    \/ ExtractAttempt
    \/ ExtractLoopEnds

SpecExtract == InitExtract /\ [][NextExtract]_vars

----------------------------------------------------------------------------
(* Both multi-stage orchestrators. *)

InitOrch == InitBook \/ InitPdf

NextOrch == NextBook \/ NextPdf

SpecOrch == InitOrch /\ [][NextOrch]_vars

----------------------------------------------------------------------------
(* Specification SpecSplit: the splitter applied to bounded inputs. *)

Blocks == { <<"c">>, <<"a", "sp">>, <<"nl", "nl">>, <<"dot", "sp">>,
            <<"c", "c", "istop">> }

RECURSIVE BlockTexts(_)
BlockTexts(n) ==
    IF n = 0 THEN { <<>> }
    ELSE LET shorter == BlockTexts(n - 1)
         IN  shorter \cup { s \o b : s \in shorter, b \in Blocks }

InitSplit ==
    /\ text \in BlockTexts(MaxBlocks)
    /\ max_tokens \in 1..MaxTokens
    /\ chunks = <<>>
    /\ split_pc = "input"
    /\ IdleClient
    /\ IdleBook
    /\ IdlePdf
    /\ IdleExtract
    /\ IdleRest

Split ==
    /\ split_pc = "input"
    /\ chunks' = SplitTextIntoChunks(text, max_tokens)
    /\ split_pc' = "done"
    /\ UNCHANGED <<text, max_tokens, clientVars, bookVars, pdfVars,
                   extractVars, restVars>>

NextSplit == Split

SpecSplit == InitSplit /\ [][NextSplit]_vars

----------------------------------------------------------------------------
(* book_analyzer.ensure_json_format.                                       *)
(*                                                                         *)
(* A response text is a sequence of characters over: { } [ ] , : "q" (the  *)
(* double quote), "x" "y" "z" (letters), "1" (a digit), "sp" "nl"          *)
(* (whitespace), "fj" (the fence opener ```json) and "f" (the fence ```).  *)
(* A parsed value is written in canonical form: its JSON text without      *)
(* whitespace, an object holding each key once (the last value wins, at    *)
(* the position of the key's first occurrence, as in a Python dict).       *)

Whitespace == {"sp", "nl"}

RECURSIVE LStrip(_)
LStrip(t) ==
    IF t # <<>> /\ Head(t) \in Whitespace THEN LStrip(Tail(t)) ELSE t

RECURSIVE RStrip(_)
RStrip(t) ==
    IF t # <<>> /\ t[Len(t)] \in Whitespace
    THEN RStrip(SubSeq(t, 1, Len(t) - 1)) ELSE t

\* text.strip()
Strip(t) == RStrip(LStrip(t))

\* text.find(ch) and text.rfind(ch) as 1-based positions, 0 for -1
FindFirst(t, ch) ==
    LET hits == { i \in 1..Len(t) : t[i] = ch }
    IN  IF hits = {} THEN 0 ELSE CHOOSE i \in hits : \A j \in hits : i <= j

FindLast(t, ch) ==
    LET hits == { i \in 1..Len(t) : t[i] = ch }
    IN  IF hits = {} THEN 0 ELSE CHOOSE i \in hits : \A j \in hits : j <= i

\* json.loads: the scanner, as a recursive-descent parser.
RECURSIVE SkipWs(_, _)
SkipWs(t, i) ==
    IF i <= Len(t) /\ t[i] \in Whitespace THEN SkipWs(t, i + 1) ELSE i

ParseFail == [ok |-> FALSE, v |-> <<>>, next |-> 0]

ParseOk(v, next) == [ok |-> TRUE, v |-> v, next |-> next]

\* A string literal from the quote at i to the next quote; a raw newline
\* inside it is a control character and is rejected.
ScanString(t, i) ==
    LET closers == { j \in (i + 1)..Len(t) : t[j] = "q" }
    IN  IF closers = {} THEN ParseFail
        ELSE LET j == CHOOSE j \in closers : \A k \in closers : j <= k
             IN  IF \E k \in (i + 1)..(j - 1) : t[k] = "nl" THEN ParseFail
                 ELSE ParseOk(SubSeq(t, i, j), j + 1)

\* A number: the maximal run of digits from i.
RECURSIVE DigitsEnd(_, _)
DigitsEnd(t, i) ==
    IF i <= Len(t) /\ t[i] = "1" THEN DigitsEnd(t, i + 1) ELSE i

ScanNumber(t, i) == ParseOk(SubSeq(t, i, DigitsEnd(t, i) - 1), DigitsEnd(t, i))

\* dict[key] = value on the members parsed so far
PutMember(members, key, value) ==
    IF \E n \in 1..Len(members) : members[n].k = key
    THEN [n \in 1..Len(members) |->
            IF members[n].k = key THEN [k |-> key, v |-> value]
            ELSE members[n]]
    ELSE Append(members, [k |-> key, v |-> value])

RECURSIVE JoinMembers(_)
JoinMembers(members) ==
    IF members = <<>> THEN <<>>
    ELSE Head(members).k \o <<":">> \o Head(members).v \o
         (IF Len(members) > 1 THEN <<",">> ELSE <<>>) \o
         JoinMembers(Tail(members))

RenderObject(members) == <<"{">> \o JoinMembers(members) \o <<"}">>

RECURSIVE JoinElements(_)
JoinElements(elements) ==
    IF elements = <<>> THEN <<>>
    ELSE Head(elements) \o
         (IF Len(elements) > 1 THEN <<",">> ELSE <<>>) \o
         JoinElements(Tail(elements))

RenderArray(elements) == <<"[">> \o JoinElements(elements) \o <<"]">>

RECURSIVE ParseValue(_, _)
RECURSIVE ParseMembers(_, _, _)
RECURSIVE ParseElements(_, _, _)

ParseValue(t, i) ==
    IF i > Len(t) THEN ParseFail
    ELSE CASE t[i] = "{" ->
                LET j == SkipWs(t, i + 1)
                IN  IF j <= Len(t) /\ t[j] = "}"
                    THEN ParseOk(RenderObject(<<>>), j + 1)
                    ELSE ParseMembers(t, j, <<>>)
           [] t[i] = "[" ->
                LET j == SkipWs(t, i + 1)
                IN  IF j <= Len(t) /\ t[j] = "]"
                    THEN ParseOk(RenderArray(<<>>), j + 1)
                    ELSE ParseElements(t, j, <<>>)
           [] t[i] = "q" -> ScanString(t, i)
           [] t[i] = "1" -> ScanNumber(t, i)
           [] OTHER -> ParseFail

\* i is where a property name is expected.
ParseMembers(t, i, members) ==
    LET key == IF i <= Len(t) /\ t[i] = "q" THEN ScanString(t, i)
               ELSE ParseFail
    IN  IF ~key.ok THEN ParseFail
        ELSE
        LET c == SkipWs(t, key.next)
        IN  IF c > Len(t) \/ t[c] # ":" THEN ParseFail
            ELSE
            LET val == ParseValue(t, SkipWs(t, c + 1))
            IN  IF ~val.ok THEN ParseFail
                ELSE
                LET ms == PutMember(members, key.v, val.v)
                    e == SkipWs(t, val.next)
                IN  IF e > Len(t) THEN ParseFail
                    ELSE IF t[e] = "}" THEN ParseOk(RenderObject(ms), e + 1)
                    ELSE IF t[e] = ","
                         THEN ParseMembers(t, SkipWs(t, e + 1), ms)
                    ELSE ParseFail

\* i is where an array element is expected.
ParseElements(t, i, elements) ==
    LET val == ParseValue(t, i)
    IN  IF ~val.ok THEN ParseFail
        ELSE
        LET es == Append(elements, val.v)
            e == SkipWs(t, val.next)
        IN  IF e > Len(t) THEN ParseFail
            ELSE IF t[e] = "]" THEN ParseOk(RenderArray(es), e + 1)
            ELSE IF t[e] = ","
                 THEN ParseElements(t, SkipWs(t, e + 1), es)
            ELSE ParseFail

\* json.loads(text): one value, surrounded by whitespace only.
JsonLoads(t) ==
    LET r == ParseValue(t, SkipWs(t, 1))
    IN  IF r.ok /\ SkipWs(t, r.next) > Len(t) THEN r ELSE ParseFail

\* json.dumps(value): the separators are ", " and ": ".
RECURSIVE JsonDumpsFrom(_, _, _)
JsonDumpsFrom(v, i, in_string) ==
    IF i > Len(v) THEN <<>>
    ELSE IF v[i] = "q"
         THEN <<"q">> \o JsonDumpsFrom(v, i + 1, ~in_string)
    ELSE IF ~in_string /\ v[i] \in {",", ":"}
         THEN <<v[i], "sp">> \o JsonDumpsFrom(v, i + 1, in_string)
    ELSE <<v[i]>> \o JsonDumpsFrom(v, i + 1, in_string)

JsonDumps(v) == JsonDumpsFrom(v, 1, FALSE)

\* re.sub(r',\s*}', '}', text) with closer = "}", likewise for "]"
RECURSIVE SubTrailingComma(_, _, _)
SubTrailingComma(t, i, closer) ==
    IF i > Len(t) THEN <<>>
    ELSE LET j == SkipWs(t, i + 1)
         IN  IF t[i] = "," /\ j <= Len(t) /\ t[j] = closer
             THEN <<closer>> \o SubTrailingComma(t, j + 1, closer)
             ELSE <<t[i]>> \o SubTrailingComma(t, i + 1, closer)

\* The two substitutions of the repair pass, in the code's order.
RepairTrailingCommas(t) ==
    SubTrailingComma(SubTrailingComma(t, 1, "}"), 1, "]")

\* The span from the first { to the last }, when there is one.
BraceSpan(t) ==
    LET start_idx == FindFirst(t, "{")
        end_idx == FindLast(t, "}")
    IN  IF start_idx # 0 /\ end_idx # 0 /\ end_idx > start_idx
        THEN SubSeq(t, start_idx, end_idx) ELSE t

JsParsed(v) == [kind |-> "parsed", v |-> v]

\* {"error": "JSON 解析錯誤", "raw_text": text}
JsErrorMarker(raw_text) == [kind |-> "error_marker", v |-> raw_text]

EnsureJsonFormat(t) ==
    LET sliced == BraceSpan(Strip(t))
        first == JsonLoads(sliced)
        repaired == RepairTrailingCommas(sliced)
        second == JsonLoads(repaired)
    IN  IF first.ok THEN JsParsed(first.v)
        ELSE IF second.ok THEN JsParsed(second.v)
        ELSE JsErrorMarker(repaired)

\* The result is a JSON object (a Python dict).
IsMapping(r) ==
    \/ r.kind = "error_marker"
    \/ r.kind = "parsed" /\ Head(r.v) = "{"

(* Specification SpecJson: ensure_json_format applied to responses put     *)
(* together from a payload (an object or an array of up to MaxMembers      *)
(* items with or without trailing commas, a number, or prose), optionally  *)
(* inside a json fence, between leading and trailing prose.                *)

MaxMembers == 2

\* txt is the item as written, clean the same item without trailing commas.
Item(txt, clean) == [txt |-> txt, clean |-> clean]

ObjItems ==
    { Item(<<"q", "x", "q", ":", "1">>, <<"q", "x", "q", ":", "1">>),
      Item(<<"q", "y", "q", ":", "q", "x", ",", "}", "q">>,
           <<"q", "y", "q", ":", "q", "x", ",", "}", "q">>),
      Item(<<"q", "z", "q", ":", "sp", "[", "1", ",", "sp", "]">>,
           <<"q", "z", "q", ":", "sp", "[", "1", "]">>),
      Item(<<"q", "x", "q", ":", "{", "}">>, <<"q", "x", "q", ":", "{", "}">>) }

ArrItems ==
    { Item(<<"1">>, <<"1">>),
      Item(<<"{", "q", "x", "q", ":", "1", "}">>,
           <<"{", "q", "x", "q", ":", "1", "}">>),
      Item(<<"q", "{", "}", "q">>, <<"q", "{", "}", "q">>) }

Trailings == { <<>>, <<",">>, <<",", "sp", "nl">>, <<",", ",">> }

Leads == { <<>>, <<"sp">>, <<"x", "sp">>, <<"x", "{", "x", "}", "nl">> }

Trails == { <<>>, <<"nl">>, <<"sp", "x">>, <<"sp", "x", "}">> }

SeqsUpTo(S, n) == UNION { [1..k -> S] : k \in 0..n }

RECURSIVE JoinItems(_, _)
JoinItems(items, clean) ==
    IF items = <<>> THEN <<>>
    ELSE (IF clean THEN Head(items).clean ELSE Head(items).txt) \o
         (IF Len(items) > 1 THEN <<",", "sp">> ELSE <<>>) \o
         JoinItems(Tail(items), clean)

\* The payload as written, or (clean) without any trailing comma.
PayloadText(shape, clean) ==
    CASE shape.kind = "object" ->
            <<"{">> \o JoinItems(shape.items, clean) \o
            (IF clean THEN <<>> ELSE shape.trailing) \o <<"}">>
      [] shape.kind = "array" ->
            <<"[">> \o JoinItems(shape.items, clean) \o
            (IF clean THEN <<>> ELSE shape.trailing) \o <<"]">>
      [] shape.kind = "number" -> <<"1", "1">>
      [] OTHER -> <<"x", "sp", "y">>

Assemble(shape) ==
    shape.lead \o
    (IF shape.fenced
     THEN <<"fj", "nl">> \o PayloadText(shape, FALSE) \o <<"nl", "f">>
     ELSE PayloadText(shape, FALSE)) \o
    shape.trail

Shapes ==
    { [kind |-> k, items |-> its, trailing |-> tr, lead |-> l,
       fenced |-> fe, trail |-> t] :
        k \in {"object"}, its \in SeqsUpTo(ObjItems, MaxMembers),
        tr \in Trailings, l \in Leads, fe \in BOOLEAN, t \in Trails } \cup
    { [kind |-> k, items |-> its, trailing |-> tr, lead |-> l,
       fenced |-> fe, trail |-> t] :
        k \in {"array"}, its \in SeqsUpTo(ArrItems, MaxMembers),
        tr \in Trailings, l \in Leads, fe \in BOOLEAN, t \in Trails } \cup
    { [kind |-> k, items |-> <<>>, trailing |-> <<>>, lead |-> l,
       fenced |-> fe, trail |-> t] :
        k \in {"number", "prose"}, l \in Leads, fe \in BOOLEAN, t \in Trails }

jsonOthers == <<splitVars, clientVars, bookVars, pdfVars, extractVars,
                batchVars, sectionVars, markdownVars, aliasVars,
                translateVars, estimateVars, truncateVars, sliceVars>>

InitJson ==
    /\ IdleSlice
    /\ IdleTruncate
    /\ IdleEstimate
    /\ IdleTranslate
    /\ IdleSplit
    /\ IdleClient
    /\ IdleBook
    /\ IdlePdf
    /\ IdleExtract
    /\ IdleBatch
    /\ IdleSections
    /\ IdleMarkdown
    /\ IdleAlias
    /\ js_pc = "input"
    /\ js_shape \in Shapes
    /\ js_text = Assemble(js_shape)
    /\ js_result = NoResult
    /\ js_again = NoResult

\* ensure_json_format(text)
Normalize ==
    /\ js_pc = "input"
    /\ js_result' = EnsureJsonFormat(js_text)
    /\ js_pc' = "done"
    /\ UNCHANGED <<js_shape, js_text, js_again, jsonOthers>>

\* ensure_json_format(json.dumps(result)) for a result that was parsed
Renormalize ==
    /\ js_pc = "done"
    /\ js_result.kind = "parsed"
    /\ js_again' = EnsureJsonFormat(JsonDumps(js_result.v))
    /\ js_pc' = "again"
    /\ UNCHANGED <<js_shape, js_text, js_result, jsonOthers>>

NextJson ==
    \/ Normalize
    \/ Renormalize

SpecJson == InitJson /\ [][NextJson]_vars

----------------------------------------------------------------------------
(* deepseek_processor: extract_pdf_text, process_single_file and the       *)
(* directory mode of main.  The analysis of one file is the run of         *)
(* analyze_pdf_with_deepseek modelled above; every completion call of that *)
(* run is one entry of pdf_log.  The files explored here hold texts below  *)
(* the 40000-token threshold of process_large_pdf; the multi-stage run of  *)
(* a longer text is explored under SpecPdf and returns, like the           *)
(* single-pass run, a JSON text.                                           *)

MaxFiles == 3

\* return "未能提取到文本，PDF可能包含掃描圖片或受保護。" (24 characters)
NoTextMessage == [len |-> 24, cjk |-> 19, words |-> 0]

\* return f"PDF文本提取失敗: {e}"
ExtractFailedMessage == [len |-> 55, cjk |-> 6, words |-> 8]

\* What the PDF gives: no page with text, an exception while reading, or
\* a text (within the single-pass ceiling, or above it).
FileKinds ==
    { [extraction |-> "none", doc |-> NoTextMessage],
      [extraction |-> "error", doc |-> ExtractFailedMessage],
      [extraction |-> "text", doc |-> [len |-> 4573, cjk |-> 4573, words |-> 0]],
      [extraction |-> "text", doc |-> [len |-> 4574, cjk |-> 0, words |-> 0]] }

\* extract_pdf_text(pdf_file): the string handed to the analysis
ExtractPdfText(file) == file.doc

\* pdf_files[:max_files] when max_files > 0 and len(pdf_files) > max_files
LimitFiles(found, max_files) ==
    IF max_files > 0 /\ Len(found) > max_files
    THEN SubSeq(found, 1, max_files) ELSE found

\* The parse of extracted_data_str: the fenced part when the fence regex
\* matches, else the whole string; on JSONDecodeError the part found by
\* the "title" regex (potential), when it parses.
ParseAnalysis(t, potential) ==
    LET primary == IF t.fence THEN t.fenced ELSE t.whole
    IN  IF primary.kind # "unparseable" THEN primary ELSE potential

\* What the "title" regex can find in a string that did not parse.
PotentialJson == { Unparseable, Dict([title |-> "Book"]) }

\* generate_markdown(extracted_data, md_output): False when the data is no
\* mapping (AttributeError) or the file cannot be written.
MarkdownResult(data, write_ok) == IsDict(data) /\ write_ok

FailedResult(name, error) ==
    [filename |-> name, success |-> FALSE, error |-> error]

DoneResult(name, md_result) ==
    [filename |-> name, success |-> md_result, md_output |-> name]

\* The return value of process_single_file for the analysis result ret.
SingleFileResult(name, ret, potential, write_ok) ==
    IF ret = PyNone
    THEN \* len(None) raises TypeError, caught by except Exception
         FailedResult(name, "TypeError")
    ELSE LET data == ParseAnalysis(ret, potential)
         IN  IF data.kind = "unparseable"
             THEN FailedResult(name, "cannot_parse_json")
             ELSE DoneResult(name, MarkdownResult(data, write_ok))

\* r.get('error', '未知錯誤')
FailureReason(r) ==
    IF "error" \in DOMAIN r THEN r.error ELSE "unknown_error"

RECURSIVE FailedList(_)
FailedList(rs) ==
    IF rs = <<>> THEN <<>>
    ELSE (IF Head(rs).success THEN <<>>
          ELSE << [filename |-> Head(rs).filename,
                   reason |-> FailureReason(Head(rs))] >>)
         \o FailedList(Tail(rs))

\* Mutant: every processed file is counted as succeeded.
SuccessCountAll(rs) == Len(rs)

\* sum(1 for r in results if r["success"])
SuccessCount(rs) == Cardinality({ n \in 1..Len(rs) : rs[n].success })

\* The statistics logged after the loop.
BatchSummary(rs) ==
    [kind |-> "summary",
     total |-> Len(rs),
     success_count |-> SuccessCount(rs),
     failed_count |-> Len(rs) - SuccessCount(rs),
     failed |-> FailedList(rs)]

batchOthers == <<splitVars, clientVars, bookVars, extractVars, jsonVars,
                 sectionVars, markdownVars, aliasVars, translateVars,
                 estimateVars, truncateVars, sliceVars>>

InitBatch ==
    /\ IdleSlice
    /\ IdleTruncate
    /\ IdleEstimate
    /\ IdleTranslate
    /\ IdleSplit
    /\ IdleClient
    /\ IdleBook
    /\ IdlePdf
    /\ IdleExtract
    /\ IdleJson
    /\ IdleSections
    /\ IdleMarkdown
    /\ IdleAlias
    /\ bt_pc = "list"
    /\ bt_found \in SeqsUpTo(FileKinds, MaxFiles)
    /\ bt_max_files \in 0..MaxFiles
    /\ pdf_files = <<>>
    /\ bt_i = 0
    /\ results = <<>>
    /\ bt_sent = <<>>
    /\ bt_report = NoResult

\* The listing of the directory, the return when it holds no PDF, and the
\* --max-files limit.
SelectFiles ==
    /\ bt_pc = "list"
    /\ pdf_files' = LimitFiles(bt_found, bt_max_files)
    /\ bt_pc' = IF bt_found = <<>> THEN "done" ELSE "loop"
    /\ UNCHANGED <<bt_found, bt_max_files, bt_i, results, bt_sent, bt_report,
                   pdfVars, batchOthers>>

\* process_single_file(pdf_file, output_dir) up to the call
\* analyze_pdf_with_deepseek(extract_pdf_text(input_file)).
FileStarts ==
    /\ bt_pc = "loop"
    /\ pdf_pc = "idle"
    /\ bt_i < Len(pdf_files)
    /\ doc' = ExtractPdfText(pdf_files[bt_i + 1])
    /\ pdf_pc' = "start"
    /\ UNCHANGED <<pdf_chunks, important_themes, pdf_batch, base_data, pdf_log,
                   pdf_final, pdf_return, bt_pc, bt_found, bt_max_files,
                   pdf_files, bt_i, results, bt_sent, bt_report, batchOthers>>

\* The rest of process_single_file once the analysis has returned, and
\* results.append(result).
FileFinishes ==
    /\ bt_pc = "loop"
    /\ pdf_pc = "done"
    /\ \E potential \in PotentialJson, write_ok \in BOOLEAN :
          results' = Append(results,
                        SingleFileResult(bt_i + 1, pdf_return, potential,
                                         write_ok))
    /\ bt_sent' = Append(bt_sent, Len(pdf_log))
    /\ bt_i' = bt_i + 1
    /\ pdf_pc' = "idle"
    /\ doc' = [len |-> 0, cjk |-> 0, words |-> 0]
    /\ pdf_chunks' = 0
    /\ important_themes' = <<>>
    /\ pdf_batch' = 0
    /\ base_data' = NoResult
    /\ pdf_log' = <<>>
    /\ pdf_final' = NoResult
    /\ pdf_return' = NoResult
    /\ UNCHANGED <<bt_pc, bt_found, bt_max_files, pdf_files, bt_report,
                   batchOthers>>

\* The loop is over: the statistics and the list of failed files.
BatchReport ==
    /\ bt_pc = "loop"
    /\ pdf_pc = "idle"
    /\ bt_i = Len(pdf_files)
    /\ bt_report' = BatchSummary(results)
    /\ bt_pc' = "done"
    /\ UNCHANGED <<bt_found, bt_max_files, pdf_files, bt_i, results, bt_sent,
                   pdfVars, batchOthers>>

NextBatch ==
    \/ SelectFiles
    \/ FileStarts
    \/ AnalyzeSinglePass
    \/ LargePdfFallsThrough
    \/ FileFinishes
    \/ BatchReport

SpecBatch == InitBatch /\ [][NextBatch]_vars

----------------------------------------------------------------------------
(* The section analyzers: enhanced_book_analyzer.process_book (seven calls *)
(* of generate_api_section), multi_section_analyzer.process_book (three    *)
(* calls of generate_section_analysis) and deep_book_analyzer.main (one    *)
(* call of generate_analysis).  A stage call sends at most one request;    *)
(* none of the three has a retry loop.                                     *)

Analyzers == {"enhanced", "multi", "deep"}

\* The section types each orchestrator asks for, in call order.
SectionTypes(analyzer) ==
    CASE analyzer = "enhanced" ->
            <<"book_overview", "theoretical_framework", "key_arguments",
              "methodology_analysis", "chapter_deep_dive",
              "practical_guidance", "critical_reflection">>
      [] analyzer = "multi" ->
            <<"introduction", "core_summary", "critical_analysis">>
      [] OTHER -> <<"analysis">>

\* os.getenv("DEEPSEEK_API_KEY"): None, "" or a key
KeyValues == {"None", "empty", "key"}

\* Mutant: the credential check is gone.
KeyMissingNever(api_key) == FALSE

\* if not DEEPSEEK_API_KEY
KeyMissing(api_key) == api_key \in {"None", "empty"}

\* What one request can end with.
SectionOutcomes == {"content", "empty_content", "non200", "exception"}

\* The value a stage call returns for an outcome: the content, else None.
SectionValue(outcome) == IF outcome = "content" THEN "content" ELSE "None"

\* [section for section in [...] if section]
SuccessfulSections(ss) == { n \in 1..Len(ss) : ss[n] # "None" }

sectionOthers == <<splitVars, clientVars, bookVars, pdfVars, extractVars,
                   jsonVars, batchVars, markdownVars, aliasVars,
                   translateVars, estimateVars, truncateVars, sliceVars>>

InitSections ==
    /\ IdleSlice
    /\ IdleTruncate
    /\ IdleEstimate
    /\ IdleTranslate
    /\ IdleSplit
    /\ IdleClient
    /\ IdleBook
    /\ IdlePdf
    /\ IdleExtract
    /\ IdleJson
    /\ IdleBatch
    /\ IdleMarkdown
    /\ IdleAlias
    /\ sec_pc = "extract"
    /\ sec_analyzer \in Analyzers
    /\ DEEPSEEK_API_KEY \in KeyValues
    /\ sec_pdf_text = "not_read"
    /\ sections = <<>>
    /\ sec_requests = 0
    /\ sec_report = NoResult

\* pdf_text = extract_pdf_text(pdf_path); if not pdf_text: return
SectionsExtract ==
    /\ sec_pc = "extract"
    /\ \E t \in {"None", "text"} :
          /\ sec_pdf_text' = t
          /\ sec_pc' = IF t = "None" THEN "done" ELSE "sections"
    /\ UNCHANGED <<sec_analyzer, DEEPSEEK_API_KEY, sections, sec_requests,
                   sec_report, sectionOthers>>

\* One call of generate_api_section / generate_section_analysis /
\* generate_analysis without the credential: return None at once.
SectionWithoutKey ==
    /\ sec_pc = "sections"
    /\ Len(sections) < Len(SectionTypes(sec_analyzer))
    /\ KeyMissing(DEEPSEEK_API_KEY)
    /\ sections' = Append(sections, "None")
    /\ UNCHANGED <<sec_pc, sec_analyzer, DEEPSEEK_API_KEY, sec_pdf_text,
                   sec_requests, sec_report, sectionOthers>>

\* One call with the credential: requests.post once, then the content or
\* None.
SectionWithKey ==
    /\ sec_pc = "sections"
    /\ Len(sections) < Len(SectionTypes(sec_analyzer))
    /\ ~KeyMissing(DEEPSEEK_API_KEY)
    /\ sec_requests' = sec_requests + 1
    /\ \E o \in SectionOutcomes :
          sections' = Append(sections, SectionValue(o))
    /\ UNCHANGED <<sec_pc, sec_analyzer, DEEPSEEK_API_KEY, sec_pdf_text,
                   sec_report, sectionOthers>>

RECURSIVE ReportBody(_, _)

\* Mutant: every section is put in the report.
ReportBodyAll(types, ss) == types

\* if book_overview: full_report += ...; if theoretical_framework: ...:
\* the section types whose text is appended to full_report, in the order of
\* the appends.
ReportBody(types, ss) ==
    IF types = <<>>
    THEN <<>>
    ELSE (IF Head(ss) # "None" THEN <<Head(types)>> ELSE <<>>)
            \o ReportBody(Tail(types), Tail(ss))

\* All stage calls are made: return when no section succeeded, else
\* save_report(full_report, book_name), which can fail to write:
\* "if not report_path: ... return".
SectionsSave ==
    /\ sec_pc = "sections"
    /\ Len(sections) = Len(SectionTypes(sec_analyzer))
    /\ IF SuccessfulSections(sections) = {}
       THEN /\ sec_pc' = "done"
            /\ UNCHANGED sec_report
       ELSE \E write_ok \in BOOLEAN :
               /\ sec_pc' = IF write_ok THEN "done" ELSE "save_failed"
               /\ sec_report' =
                     IF write_ok
                     THEN [kind |-> "report",
                           sections |-> SuccessfulSections(sections),
                           body |-> ReportBody(SectionTypes(sec_analyzer),
                                               sections)]
                     ELSE sec_report
    /\ UNCHANGED <<sec_analyzer, DEEPSEEK_API_KEY, sec_pdf_text, sections,
                   sec_requests, sectionOthers>>

NextSections ==
    \/ SectionsExtract
    \/ SectionWithoutKey
    \/ SectionWithKey
    \/ SectionsSave

SpecSections == InitSections /\ [][NextSections]_vars

----------------------------------------------------------------------------
(* generate_markdown of book_analyzer.py and of deepseek_processor.py.     *)
(*                                                                         *)
(* A report is a mapping (DOMAIN = the keys present); a text field holds   *)
(* "" or "text", a list field a sequence of mappings.  The output is the   *)
(* sequence of its lines that matter here: the title, the section headers  *)
(* (level 2), the headers below them, the links of the table of contents   *)
(* and one line per body.                                                  *)

Line(kind, name, body) == [line |-> kind, name |-> name, text |-> body]

\* data.get(key, default) on a report
Field(data, key, default) ==
    IF key \in DOMAIN data THEN data[key] ELSE default

Flatten(lines) == Concat(lines)

\* deepseek_processor.generate_markdown: `if value:` guards the section.
OptionalSection(data, key) ==
    IF Field(data, key, "") # ""
    THEN << Line("section", key, ""), Line("body", key, data[key]) >>
    ELSE <<>>

TocLinks(data) ==
    [n \in 1..5 |->
        Line("link", <<"author_background", "book_overview",
                       "chapters_analysis", "key_concepts",
                       "critical_analysis">>[n], "")] \o
    (IF Field(data, "comparative_analysis", "") # ""
     THEN << Line("link", "comparative_analysis", ""),
             Line("link", "reader_recommendations", ""),
             Line("link", "conclusion", "") >>
     ELSE << Line("link", "conclusion", "") >>)

PdfChapterLines(chapter) ==
    << Line("subsection", "chapter", Field(chapter, "chapter_title",
                                            "unknown_chapter")) >> \o
    (IF Field(chapter, "summary", "") # ""
     THEN << Line("body", "summary", chapter.summary) >> ELSE <<>>)

PdfConceptLines(concept) ==
    IF Field(concept, "term", "") # ""
    THEN << Line("subsection", "concept", concept.term) >> \o
         (IF Field(concept, "definition", "") # ""
          THEN << Line("body", "definition", concept.definition) >>
          ELSE <<>>)
    ELSE <<>>

GenerateMarkdownPdf(data) ==
    LET chapters == Field(data, "chapters_analysis", <<>>)
        concepts == Field(data, "key_concepts", <<>>)
    IN  << Line("title", "title", Field(data, "title", "no_title")) >> \o
        OptionalSection(data, "author") \o
        OptionalSection(data, "author_background") \o
        OptionalSection(data, "book_overview") \o
        << Line("section", "toc", "") >> \o TocLinks(data) \o
        << Line("section", "chapters_analysis", "") >> \o
        Flatten([n \in 1..Len(chapters) |-> PdfChapterLines(chapters[n])]) \o
        << Line("section", "key_concepts", "") >> \o
        Flatten([n \in 1..Len(concepts) |-> PdfConceptLines(concepts[n])]) \o
        OptionalSection(data, "critical_analysis") \o
        OptionalSection(data, "comparative_analysis") \o
        OptionalSection(data, "reader_recommendations") \o
        OptionalSection(data, "conclusion")

\* book_analyzer.generate_markdown: the header always, the body from
\* data.get(key, placeholder).
PlaceholderSection(data, key, placeholder) ==
    << Line("section", key, ""), Line("body", key, Field(data, key, placeholder)) >>

BookTocLines(entry) ==
    << Line("item", "toc_entry", Field(entry, "title", "unnamed_chapter")) >>

BookChapterLines(chapter) ==
    << Line("subsection", "chapter",
            Field(chapter, "chapter_title", "unnamed_chapter")),
       Line("subsection", "chapter_summary", ""),
       Line("body", "summary", Field(chapter, "summary", "no_summary")),
       Line("subsection", "key_points", "") >> \o
    (IF Field(chapter, "key_concepts", <<>>) # <<>>
     THEN << Line("subsection", "key_concepts", "") >> ELSE <<>>) \o
    << Line("subsection", "practical_value", ""),
       Line("body", "practical_value",
            Field(chapter, "practical_value", "no_practical_value")) >>

GenerateMarkdownBook(data) ==
    LET toc == Field(data, "table_of_contents", <<>>)
        chapters == Field(data, "chapter_analysis", <<>>)
    IN  << Line("title", "title", Field(data, "title", "unknown_title")),
           Line("body", "author", Field(data, "author", "unknown")) >> \o
        (IF Field(data, "author_background", "") # ""
         THEN << Line("body", "author_background", data.author_background) >>
         ELSE <<>>) \o
        PlaceholderSection(data, "overview", "no_overview") \o
        << Line("section", "table_of_contents", "") >> \o
        Flatten([n \in 1..Len(toc) |-> BookTocLines(toc[n])]) \o
        << Line("section", "chapter_analysis", "") >> \o
        Flatten([n \in 1..Len(chapters) |-> BookChapterLines(chapters[n])]) \o
        PlaceholderSection(data, "reading_guide", "no_reading_guide") \o
        PlaceholderSection(data, "evaluation", "no_evaluation")

\* The level-2 headers of an output, in order.
SectionHeaders(output) ==
    LET IsSection(l) == l.line = "section"
        hs == SelectSeq(output, IsSection)
    IN  [n \in 1..Len(hs) |-> hs[n].name]

\* The sections each generate_markdown knows, in the order of its code.
AllSections(program) ==
    IF program = "pdf"
    THEN <<"author", "author_background", "book_overview", "toc",
           "chapters_analysis", "key_concepts", "critical_analysis",
           "comparative_analysis", "reader_recommendations", "conclusion">>
    ELSE <<"overview", "table_of_contents", "chapter_analysis",
           "reading_guide", "evaluation">>

(* Specification SpecMarkdown: both renderers on the reports whose text    *)
(* fields are absent, empty or filled and whose lists are absent, empty or *)
(* hold one item.                                                          *)

TextFields(program) ==
    IF program = "pdf"
    THEN {"title", "author", "author_background", "book_overview",
          "critical_analysis", "comparative_analysis",
          "reader_recommendations", "conclusion"}
    ELSE {"title", "author", "author_background", "overview",
          "reading_guide", "evaluation"}

ListFields(program) ==
    IF program = "pdf" THEN {"chapters_analysis", "key_concepts"}
    ELSE {"table_of_contents", "chapter_analysis"}

ListItem(key) ==
    CASE key = "chapters_analysis" ->
            [chapter_title |-> "text", summary |-> "text"]
      [] key = "key_concepts" -> [term |-> "text", definition |-> "text"]
      [] key = "table_of_contents" -> [title |-> "text"]
      [] OTHER -> [chapter_title |-> "text", summary |-> "text"]

Reports(program) ==
    { [k \in DOMAIN tf \cup LK |->
          IF k \in DOMAIN tf THEN tf[k]
          ELSE IF k \in LF THEN << ListItem(k) >> ELSE <<>>] :
        tf \in UNION { [K -> {"", "text"}] : K \in SUBSET TextFields(program) },
        LK \in SUBSET ListFields(program),
        LF \in SUBSET ListFields(program) }

markdownOthers == <<splitVars, clientVars, bookVars, pdfVars, extractVars,
                    jsonVars, batchVars, sectionVars, aliasVars,
                    translateVars, estimateVars, truncateVars, sliceVars>>

InitMarkdown ==
    /\ IdleSlice
    /\ IdleTruncate
    /\ IdleEstimate
    /\ IdleTranslate
    /\ IdleSplit
    /\ IdleClient
    /\ IdleBook
    /\ IdlePdf
    /\ IdleExtract
    /\ IdleJson
    /\ IdleBatch
    /\ IdleSections
    /\ IdleAlias
    /\ md_pc = "input"
    /\ md_program \in {"book", "pdf"}
    /\ md_data \in Reports(md_program)
    /\ md_output = <<>>
    /\ md_ok = FALSE

\* generate_markdown(data, output_file): True and the file, or False when
\* the file cannot be written.
GenerateMarkdown ==
    /\ md_pc = "input"
    /\ \E write_ok \in BOOLEAN :
          /\ md_ok' = write_ok
          /\ md_output' =
                IF ~write_ok THEN <<>>
                ELSE IF md_program = "pdf" THEN GenerateMarkdownPdf(md_data)
                ELSE GenerateMarkdownBook(md_data)
    /\ md_pc' = "done"
    /\ UNCHANGED <<md_program, md_data, markdownOthers>>

NextMarkdown == GenerateMarkdown

SpecMarkdown == InitMarkdown /\ [][NextMarkdown]_vars

----------------------------------------------------------------------------
(* Specification SpecAlias: the standardisation of extract_content applied *)
(* to the parsed mappings that hold any subset of the aliases of one       *)
(* canonical field, each alias empty or filled with a value naming it.     *)

CanonicalFields == {"title", "summary", "toc", "chapters"}

\* The aliases of a canonical field, in the order of the nested get calls.
Aliases(field) ==
    CASE field = "title" -> <<"title", "zh_title">>
      [] field = "summary" -> <<"executive_summary", "summary", "zh_summary",
                                "zh_key_summary">>
      [] field = "toc" -> <<"table_of_contents", "toc", "zh_toc">>
      [] OTHER -> <<"chapter_analysis", "chapters", "zh_chapter_details">>

\* "" for the title, an empty text or list for the other fields
EmptyValue(field) == IF field = "title" THEN "" ELSE <<>>

FilledValue(field, alias) ==
    CASE field = "title" -> alias
      [] field = "chapters" -> << [title |-> alias, content |-> <<"body">>] >>
      [] OTHER -> << alias >>

Range(seq) == { seq[n] : n \in DOMAIN seq }

AliasInputs ==
    UNION { { Dict([k \in present |->
                      IF k \in filled THEN FilledValue(field, k)
                      ELSE EmptyValue(field)]) :
                filled \in SUBSET present } :
            <<field, present>> \in
                { <<f, ks>> \in CanonicalFields \X SUBSET
                      UNION { Range(Aliases(g)) : g \in CanonicalFields } :
                    ks \subseteq Range(Aliases(f)) } }

aliasOthers == <<splitVars, clientVars, bookVars, pdfVars, extractVars,
                 jsonVars, batchVars, sectionVars, markdownVars,
                 translateVars, estimateVars, truncateVars, sliceVars>>

InitAlias ==
    /\ IdleSlice
    /\ IdleTruncate
    /\ IdleEstimate
    /\ IdleTranslate
    /\ IdleSplit
    /\ IdleClient
    /\ IdleBook
    /\ IdlePdf
    /\ IdleExtract
    /\ IdleJson
    /\ IdleBatch
    /\ IdleSections
    /\ IdleMarkdown
    /\ al_pc = "parsed"
    /\ al_data \in AliasInputs
    /\ al_result = NoResult

\* result = {"title": extracted_data.get("title", ...), ...}; return result
StandardiseResponse ==
    /\ al_pc = "parsed"
    /\ al_result' = Dict(Standardise(al_data))
    /\ al_pc' = "returned"
    /\ UNCHANGED <<al_data, aliasOthers>>

NextAlias == StandardiseResponse

SpecAlias == InitAlias /\ [][NextAlias]_vars

----------------------------------------------------------------------------
(* deepseek_processor.translate_text(text, max_retries): the DeepL call    *)
(* with its retry loop.                                                    *)

\* The arguments that are returned untranslated: a falsy text, the two
\* placeholders, a dict or a list.
UntranslatedInputs == {"empty", "no_summary", "no_toc", "dict", "list"}

TranslateInputs == UntranslatedInputs \cup {"english_text", "chinese_text"}

\* What one requests.post to DeepL can give.
TranslateOutcomes ==
    { [status |-> "ok"], [status |-> "timeout"], [status |-> "bad_body"] } \cup
    { [status |-> "non200", code |-> c] : c \in {403, 429, 456, 503} }

\* str(e) in the except clause
TranslateError(o) ==
    IF o.status = "non200" THEN <<"request_failed", o.code>> ELSE <<o.status>>

\* if retry_count == max_retries - 1, tested after retry_count += 1
TranslateGivesUp(retry_count, max_retries) == retry_count = max_retries - 1

\* raise Exception(f"翻譯過程失敗，已嘗試 {max_retries} 次: {str(e)}")
TranslateFailedAfter(max_retries, error) ==
    Raised(<<"translation_failed_after", max_retries, error>>)

\* raise Exception("所有翻譯嘗試均失敗")
AllTranslationsFailedError == Raised(<<"all_translations_failed">>)

\* time.sleep(2 ** retry_count)
Backoff(retry_count) == 2 ^ retry_count

translateOthers == <<splitVars, clientVars, bookVars, pdfVars, extractVars,
                     jsonVars, batchVars, sectionVars, markdownVars,
                     aliasVars, estimateVars, truncateVars, sliceVars>>

InitTranslate ==
    /\ IdleSlice
    /\ IdleTruncate
    /\ IdleEstimate
    /\ IdleSplit
    /\ IdleClient
    /\ IdleBook
    /\ IdlePdf
    /\ IdleExtract
    /\ IdleJson
    /\ IdleBatch
    /\ IdleSections
    /\ IdleMarkdown
    /\ IdleAlias
    /\ tr_pc = "start"
    /\ tr_text \in TranslateInputs
    /\ tr_max_retries \in 0..MaxRetries
    /\ tr_retry_count = 0
    /\ tr_requests = <<>>
    /\ tr_sleeps = <<>>
    /\ tr_result = NoResult

\* The two early returns, else retry_count = 0.
TranslateStarts ==
    /\ tr_pc = "start"
    /\ IF tr_text \in UntranslatedInputs
       THEN /\ tr_pc' = "returned"
            /\ tr_result' = [kind |-> "text", text |-> tr_text]
       ELSE /\ tr_pc' = "loop"
            /\ UNCHANGED tr_result
    /\ UNCHANGED <<tr_text, tr_max_retries, tr_retry_count, tr_requests,
                   tr_sleeps, translateOthers>>

\* One pass of `while retry_count < max_retries`: the request and the
\* handling of its response.  A non-200 status raises inside the try block
\* on the pass where the except clause raises too, and sleeps otherwise.
TranslateAttempt ==
    /\ tr_pc = "loop"
    /\ tr_retry_count < tr_max_retries
    /\ tr_retry_count' = tr_retry_count + 1
    /\ \E o \in TranslateOutcomes :
          /\ tr_requests' = Append(tr_requests, o)
          /\ IF o.status = "ok"
             THEN /\ tr_result' = [kind |-> "text", text |-> "translated"]
                  /\ tr_pc' = "returned"
                  /\ UNCHANGED tr_sleeps
             ELSE IF TranslateGivesUp(tr_retry_count', tr_max_retries)
             THEN /\ tr_result' = TranslateFailedAfter(tr_max_retries,
                                                       TranslateError(o))
                  /\ tr_pc' = "raised"
                  /\ UNCHANGED tr_sleeps
             ELSE /\ tr_sleeps' = Append(tr_sleeps, Backoff(tr_retry_count'))
                  /\ UNCHANGED <<tr_pc, tr_result>>
    /\ UNCHANGED <<tr_text, tr_max_retries, translateOthers>>

\* The loop ends without a return.
TranslateLoopEnds ==
    /\ tr_pc = "loop"
    /\ ~(tr_retry_count < tr_max_retries)
    /\ tr_result' = AllTranslationsFailedError
    /\ tr_pc' = "raised"
    /\ UNCHANGED <<tr_text, tr_max_retries, tr_retry_count, tr_requests,
                   tr_sleeps, translateOthers>>

NextTranslate ==
    \/ TranslateStarts
    \/ TranslateAttempt
    \/ TranslateLoopEnds

SpecTranslate == InitTranslate /\ [][NextTranslate]_vars

----------------------------------------------------------------------------
(* Specification SpecParagraphs: the splitter applied to texts made of     *)
(* short paragraphs separated by double newlines, among them the text      *)
(* 第一章 / 內容A / 第二章 / 內容B.                                        *)

MaxParagraphs == 4

Paragraphs == { <<"c", "c", "c">>, <<"c", "c", "a">>, <<"c", "c">>,
                <<"c", "c", "c", "c">> }

\* "第一章\n\n內容A\n\n第二章\n\n內容B"
ScenarioText ==
    <<"c", "c", "c", "nl", "nl", "c", "c", "a", "nl", "nl",
      "c", "c", "c", "nl", "nl", "c", "c", "a">>

RECURSIVE ParagraphTexts(_)
ParagraphTexts(n) ==
    IF n = 1 THEN Paragraphs
    ELSE ParagraphTexts(n - 1) \cup
         { s \o <<"nl", "nl">> \o q : s \in ParagraphTexts(n - 1),
                                      q \in Paragraphs }

InitParagraphs ==
    /\ text \in ParagraphTexts(MaxParagraphs)
    /\ max_tokens \in 1..EstimateTokens(text)
    /\ chunks = <<>>
    /\ split_pc = "input"
    /\ IdleClient
    /\ IdleBook
    /\ IdlePdf
    /\ IdleExtract
    /\ IdleRest

SpecParagraphs == InitParagraphs /\ [][NextSplit]_vars

----------------------------------------------------------------------------
(* Specification SpecEstimate: estimate_tokens applied to a text and to    *)
(* the text extended by a suffix.                                          *)

MaxTextLen == 3
MaxSuffixLen == 2

\* A CJK ideograph, a Latin letter, a digit, a space.
EstimateAlphabet == {"c", "a", "1", "sp"}

estimateOthers == <<splitVars, clientVars, bookVars, pdfVars, extractVars,
                    jsonVars, batchVars, sectionVars, markdownVars,
                    aliasVars, translateVars, truncateVars, sliceVars>>

InitEstimate ==
    /\ IdleSlice
    /\ IdleTruncate
    /\ IdleSplit
    /\ IdleClient
    /\ IdleBook
    /\ IdlePdf
    /\ IdleExtract
    /\ IdleJson
    /\ IdleBatch
    /\ IdleSections
    /\ IdleMarkdown
    /\ IdleAlias
    /\ IdleTranslate
    /\ es_pc = "input"
    /\ es_text \in SeqsUpTo(EstimateAlphabet, MaxTextLen)
    /\ es_suffix \in SeqsUpTo(EstimateAlphabet, MaxSuffixLen)
    /\ es_tokens = 0
    /\ es_extended = 0

\* estimate_tokens(T) and estimate_tokens(T + U)
Estimate ==
    /\ es_pc = "input"
    /\ es_tokens' = EstimateTokens(es_text)
    /\ es_extended' = EstimateTokens(es_text \o es_suffix)
    /\ es_pc' = "done"
    /\ UNCHANGED <<es_text, es_suffix, estimateOthers>>

NextEstimate == Estimate

SpecEstimate == InitEstimate /\ [][NextEstimate]_vars

----------------------------------------------------------------------------
(* Specification SpecCuts: the splitter applied to texts in which two      *)
(* delimiters (paragraph breaks or sentence terminators) stand between     *)
(* stretches of CJK characters, words and spaces.                          *)

Fillers == { <<>>, <<"c">>, <<"a", "sp">>, <<"sp", "sp", "sp", "sp">>,
             <<"c", "c", "c", "c">> }

\* "\n\n", "。", ". ", "？", "！"
Delimiters == { <<"nl", "nl">>, <<"istop">>, <<"dot", "sp">>, <<"iq">>,
                <<"iexcl">> }

CutTexts ==
    { f1 \o d1 \o f2 \o d2 \o f3 \o f4 :
        f1 \in Fillers, d1 \in Delimiters, f2 \in Fillers,
        d2 \in Delimiters, f3 \in Fillers, f4 \in Fillers }

InitCuts ==
    /\ text \in CutTexts
    /\ max_tokens \in 1..MaxTokens
    /\ chunks = <<>>
    /\ split_pc = "input"
    /\ IdleClient
    /\ IdleBook
    /\ IdlePdf
    /\ IdleExtract
    /\ IdleRest

SpecCuts == InitCuts /\ [][NextSplit]_vars

----------------------------------------------------------------------------
(* extract_pdf_text of enhanced_book_analyzer.py, multi_section_analyzer.py *)
(* and deep_book_analyzer.py.  A long text is held as a sequence of runs   *)
(* [ch, n]: n >= 1 equal characters ch, neighbouring runs of different     *)
(* characters; "c" is a CJK ideograph, "a" a Latin letter, "dot" a         *)
(* character that is neither (and no whitespace, so strip() keeps it).     *)

MaxRuns == 3

RunSizes == {1, 4000, 12000, 25000}

RunChars == {"c", "a", "dot"}

Run(ch, n) == [ch |-> ch, n |-> n]

RECURSIVE RunLen(_)
RunLen(runs) ==
    IF runs = <<>> THEN 0 ELSE Head(runs).n + RunLen(Tail(runs))

RECURSIVE RunCjk(_)
RunCjk(runs) ==
    IF runs = <<>> THEN 0
    ELSE (IF Head(runs).ch = "c" THEN Head(runs).n ELSE 0) + RunCjk(Tail(runs))

\* The matches of \b[a-zA-Z]+\b: the runs of letters with no CJK ideograph
\* (a word character) on either side.
RunWords(runs) ==
    Cardinality({ i \in 1..Len(runs) :
                    /\ runs[i].ch = "a"
                    /\ (i = 1 \/ runs[i - 1].ch # "c")
                    /\ (i = Len(runs) \/ runs[i + 1].ch # "c") })

\* estimate_tokens on a text given as runs
RunEstimate(runs) == TokenFormula(RunCjk(runs), RunWords(runs), RunLen(runs))

\* text[:k]
RECURSIVE RunPrefix(_, _)
RunPrefix(runs, k) ==
    IF k <= 0 \/ runs = <<>> THEN <<>>
    ELSE IF Head(runs).n >= k THEN << Run(Head(runs).ch, k) >>
    ELSE << Head(runs) >> \o RunPrefix(Tail(runs), k - Head(runs).n)

\* The ceiling of each program: 20000 in the 7-stage analyzer, else 15000.
TokenLimit(analyzer) == IF analyzer = "enhanced" THEN 20000 ELSE 15000

\* int(len(text) * (limit / tokens)); the float product has the floor of
\* the exact quotient for the sizes that occur here.
Cutoff(len, limit, tokens) == (len * limit) \div tokens

\* The text returned for a non-empty stripped text.
TruncateToLimit(runs, limit) ==
    IF RunEstimate(runs) > limit
    THEN RunPrefix(runs, Cutoff(RunLen(runs), limit, RunEstimate(runs)))
    ELSE runs

RECURSIVE RunTexts(_)
RunTexts(n) ==
    IF n = 0 THEN { <<>> }
    ELSE RunTexts(n - 1) \cup
         { Append(t, Run(ch, size)) :
             t \in { u \in RunTexts(n - 1) : Len(u) = n - 1 },
             ch \in RunChars, size \in RunSizes }

\* Neighbouring runs hold different characters.
Normal(runs) == \A i \in 1..(Len(runs) - 1) : runs[i].ch # runs[i + 1].ch

truncateOthers == <<splitVars, clientVars, bookVars, pdfVars, extractVars,
                    jsonVars, batchVars, sectionVars, markdownVars,
                    aliasVars, translateVars, estimateVars, sliceVars>>

InitTruncate ==
    /\ IdleSlice
    /\ IdleSplit
    /\ IdleClient
    /\ IdleBook
    /\ IdlePdf
    /\ IdleExtract
    /\ IdleJson
    /\ IdleBatch
    /\ IdleSections
    /\ IdleMarkdown
    /\ IdleAlias
    /\ IdleTranslate
    /\ IdleEstimate
    /\ tc_pc = "read"
    /\ tc_analyzer \in Analyzers
    /\ tc_text \in { [kind |-> "unreadable"] } \cup
                   { [kind |-> "text", runs |-> t] :
                       t \in { u \in RunTexts(MaxRuns) : Normal(u) } }
    /\ tc_result = NoResult

\* extract_pdf_text(pdf_path): None when the file cannot be read or holds
\* no text, else the stripped text, cut when its estimate is over the limit.
ExtractAndTruncate ==
    /\ tc_pc = "read"
    /\ tc_result' =
          IF tc_text.kind = "unreadable" THEN PyNone
          ELSE IF tc_text.runs = <<>> THEN PyNone
          ELSE [kind |-> "text",
                runs |-> TruncateToLimit(tc_text.runs,
                                         TokenLimit(tc_analyzer))]
    /\ tc_pc' = "returned"
    /\ UNCHANGED <<tc_analyzer, tc_text, truncateOthers>>

NextTruncate == ExtractAndTruncate

SpecTruncate == InitTruncate /\ [][NextTruncate]_vars

----------------------------------------------------------------------------
(* The part of the content that generate_api_section (7 stages) and        *)
(* generate_section_analysis (3 stages) put in the prompt of each stage.   *)
(* The characters of the content are told apart by their positions.        *)

MaxContentLen == 16

\* Mutant: the start of a part is rounded up.
StageSliceCeilStart(c, k, n) ==
    Slice(c, IF k = 0 THEN 0 ELSE Ceil(k * Len(c), n),
             IF k = n - 1 THEN Len(c) ELSE ((k + 1) * Len(c)) \div n)

\* content[int(k*len(content)/n) : int((k+1)*len(content)/n)] for the stage
\* with 0-based index k of n; the first part starts at 0 and the last part
\* runs to the end.
StageSlice(c, k, n) ==
    Slice(c, IF k = 0 THEN 0 ELSE (k * Len(c)) \div n,
             IF k = n - 1 THEN Len(c) ELSE ((k + 1) * Len(c)) \div n)

SlicingAnalyzers == {"enhanced", "multi"}

sliceOthers == <<splitVars, clientVars, bookVars, pdfVars, extractVars,
                 jsonVars, batchVars, sectionVars, markdownVars, aliasVars,
                 translateVars, estimateVars, truncateVars>>

InitSlice ==
    /\ IdleSplit
    /\ IdleClient
    /\ IdleBook
    /\ IdlePdf
    /\ IdleExtract
    /\ IdleJson
    /\ IdleBatch
    /\ IdleSections
    /\ IdleMarkdown
    /\ IdleAlias
    /\ IdleTranslate
    /\ IdleEstimate
    /\ IdleTruncate
    /\ sl_pc = "stages"
    /\ sl_analyzer \in SlicingAnalyzers
    /\ \E len \in 1..MaxContentLen : content = [i \in 1..len |-> i]
    /\ sl_slices = <<>>

\* The next stage call builds its prompt.
StagePrompt ==
    /\ sl_pc = "stages"
    /\ Len(sl_slices) < Len(SectionTypes(sl_analyzer))
    /\ sl_slices' = Append(sl_slices,
                           StageSlice(content, Len(sl_slices),
                                      Len(SectionTypes(sl_analyzer))))
    /\ UNCHANGED <<sl_pc, sl_analyzer, content, sliceOthers>>

\* All stage calls are made.
StagesDone ==
    /\ sl_pc = "stages"
    /\ Len(sl_slices) = Len(SectionTypes(sl_analyzer))
    /\ sl_pc' = "done"
    /\ UNCHANGED <<sl_analyzer, content, sl_slices, sliceOthers>>

NextSlice ==
    \/ StagePrompt
    \/ StagesDone

SpecSlice == InitSlice /\ [][NextSlice]_vars

----------------------------------------------------------------------------
(* C1: concatenating the chunks of split_text_into_chunks(T, M) in order   *)
(* reproduces T exactly, for every text T and every max_tokens M >= 1.     *)
C1_Lossless ==
    split_pc = "done" => Concat(chunks) = text

\* A text that needed more than one chunk, cut at a paragraph break.
C1_Witness ==
    /\ split_pc = "done"
    /\ Len(chunks) >= 2
    /\ Len(chunks[1]) >= 5
    /\ Slice(chunks[1], Len(chunks[1]) - 2, Len(chunks[1])) = <<"nl", "nl">>
    /\ Concat(chunks) = text

(* C2: when estimate_tokens(T) <= M the splitter returns exactly one       *)
(* chunk, and that chunk equals T.                                         *)
C2_SingleChunk ==
    (split_pc = "done" /\ EstimateTokens(text) <= max_tokens)
        => chunks = <<text>>

C2_Witness ==
    /\ split_pc = "done"
    /\ EstimateTokens(text) = max_tokens
    /\ Len(text) >= 3
    /\ chunks = <<text>>

(* C3: every chunk returned by split_text_into_chunks, the final one       *)
(* included, satisfies estimate_tokens(chunk) <= max_tokens.               *)
C3_ChunksWithinBudget ==
    split_pc = "done" =>
        \A k \in 1..Len(chunks) : EstimateTokens(chunks[k]) <= max_tokens

----------------------------------------------------------------------------
Last(q) == q[Len(q)]

(* C4: for every max_retries N >= 1, when every attempt of the             *)
(* book_analyzer client fails (non-200, empty content or exception) it     *)
(* sends exactly N requests and then returns an error marker; it never     *)
(* sends more than N requests and never ends in any other way.             *)
C4_ExactlyNRequests ==
    /\ cl_requests <= cl_max_retries
    /\ (cl_pc = "returned" /\ cl_requests = cl_retry_count) =>
          /\ cl_requests = cl_max_retries
          /\ IsDict(cl_result)
          /\ HasKey(cl_result, "error")

\* Three attempts, the last one ending in a transport exception.
C4_Witness ==
    /\ cl_pc = "returned"
    /\ cl_max_retries = 3
    /\ cl_retry_count = 3
    /\ cl_requests = 3
    /\ cl_last_error = "exception"
    /\ cl_result = RetriesExhaustedMarker

(* C5: in deepseek_processor.extract_content an attempt that ends with a   *)
(* non-200 status or a transport exception is never turned into a          *)
(* returned result.                                                        *)
C5_FailureNeverReturned ==
    (ex_pc = "returned") => Last(ex_log).http = "ok"

AllAttemptsFailed ==
    \A k \in 1..Len(ex_log) : ex_log[k].error # "none"

C7_NeverNone ==
    pdf_pc = "done" =>
        /\ pdf_return # PyNone
        /\ pdf_return.kind = "text"
        /\ TokenEstimateExceeds(doc.len) <=> (Len(pdf_log) = 0 \/
                                                pdf_log[1].stage = "base")

\* The chapters the chunk stages handed over, in call order: a stage
\* contributes when its result is a mapping without "error" that holds
\* identified_chapters.
RECURSIVE ExpectedChapters(_)
ExpectedChapters(rs) ==
    IF rs = <<>> THEN <<>>
    ELSE LET r == Head(rs)
         IN  (IF IsDict(r) /\ ~HasKey(r, "error")
                           /\ HasKey(r, "identified_chapters")
              THEN r.d.identified_chapters ELSE <<>>)
             \o ExpectedChapters(Tail(rs))

\* The themes the batches handed over, in call order: a batch contributes
\* when its response parses to a mapping holding a themes_analysis list.
RECURSIVE ExpectedThemes(_)
ExpectedThemes(log) ==
    IF log = <<>> THEN <<>>
    ELSE LET e == Head(log)
         IN  (IF e.stage = "themes" /\ Parses(e.response)
                 /\ HasList(e.response.whole, "themes_analysis")
              THEN e.response.whole.d.themes_analysis.items ELSE <<>>)
             \o ExpectedThemes(Tail(log))

StagesOf(log) == [k \in 1..Len(log) |-> log[k].stage]

RECURSIVE Repeat(_, _)
Repeat(x, n) == IF n = 0 THEN <<>> ELSE <<x>> \o Repeat(x, n - 1)

IsErrorMarker(r) == IsDict(r) /\ HasKey(r, "error")

C9_AppendInStageOrder ==
    /\ final_result # NoResult =>
          final_result.chapter_analysis = ExpectedChapters(chunk_results)
    /\ (bk_pc = "done" /\ bk_return.kind = "dict"
                       /\ ~HasKey(bk_return, "error")) =>
          /\ Len(chunk_results) = bk_n
          /\ bk_return.d.chapter_analysis = ExpectedChapters(chunk_results)
    /\ pdf_final # NoResult =>
          pdf_final.themes_analysis = ExpectedThemes(pdf_log)
    /\ (pdf_pc = "done" /\ pdf_final # NoResult) =>
          pdf_return.whole.d.themes_analysis = ExpectedThemes(pdf_log)

\* Lists [k2, k3] then (after a failed chunk) [k1] merged to [k2, k3, k1].
C9_Witness ==
    /\ bk_pc = "done"
    /\ bk_n = 3
    /\ Len(chunk_results) = 3
    /\ IsErrorMarker(chunk_results[2])
    /\ bk_return.kind = "dict"
    /\ ~HasKey(bk_return, "error")
    /\ bk_return.d.chapter_analysis = <<"k2", "k3", "k1">>

(* C10: once the base-structure stage has set title and author to          *)
(* non-empty values, no chunk stage and not the final-integration stage    *)
(* overwrites them: the report in progress and the returned report carry   *)
(* the base stage's title and author.                                      *)
C10_TitleAuthorFirstWins ==
    (/\ final_result # NoResult
     /\ HasKey(base_structure, "title")
     /\ HasKey(base_structure, "author")
     /\ base_structure.d.title # ""
     /\ base_structure.d.author # "") =>
        /\ final_result.title = base_structure.d.title
        /\ final_result.author = base_structure.d.author
        /\ (bk_pc = "done" /\ bk_return.kind = "dict") =>
              /\ bk_return.d.title = base_structure.d.title
              /\ bk_return.d.author = base_structure.d.author

\* A chunk result and the final integration both carried another title.
C10_Witness ==
    /\ bk_pc = "done"
    /\ bk_return.kind = "dict"
    /\ \E k \in 1..Len(chunk_results) :
          IsDict(chunk_results[k]) /\ HasKey(chunk_results[k], "title")
    /\ IsDict(final_integration)
    /\ HasKey(final_integration, "title")
    /\ ~HasKey(final_integration, "error")
    /\ final_integration.d.title # "Book"
    /\ bk_return.d.title = "Book"
    /\ bk_return.d.author = "Auth"

----------------------------------------------------------------------------
(* C11: for arbitrary input text, the result of ensure_json_format is a    *)
(* parsed mapping or an error marker holding the key "error"; no other     *)
(* kind of value is returned.                                              *)
C11_MappingOrMarker ==
    js_pc \in {"done", "again"} => IsMapping(js_result)

\* The payload of the response is a valid JSON object.
PayloadIsObject ==
    /\ js_shape.kind = "object"
    /\ JsonLoads(PayloadText(js_shape, FALSE)).ok

(* C12: a response made of leading prose, a json fence whose inner content *)
(* is a valid JSON object J, and trailing prose normalizes to exactly the  *)
(* parsed J, whatever the prose is.                                        *)
C12_FencedObjectParsed ==
    (js_pc \in {"done", "again"} /\ js_shape.fenced /\ PayloadIsObject) =>
        js_result = JsParsed(JsonLoads(PayloadText(js_shape, FALSE)).v)

\* The response is a JSON object that is valid except for trailing commas
\* immediately before a closing } or ].
OnlyTrailingCommasWrong ==
    /\ js_shape.kind = "object"
    /\ ~js_shape.fenced
    /\ js_shape.lead = <<>>
    /\ js_shape.trail = <<>>
    /\ js_shape.trailing # <<",", ",">>
    /\ ~JsonLoads(js_text).ok

(* C13: a response that is a valid JSON object except for trailing commas  *)
(* before a closing } or ] is parsed to the same value as the text without *)
(* those trailing commas, string contents included.                        *)
C13_RepairKeepsValue ==
    (js_pc \in {"done", "again"} /\ OnlyTrailingCommasWrong) =>
        js_result = JsParsed(JsonLoads(PayloadText(js_shape, TRUE)).v)

(* C14: when the strict parse and the parse after the repair pass both     *)
(* fail, the error marker's raw_text is the original input text.           *)
C14_RawTextIsOriginal ==
    (js_pc = "done" /\ js_result.kind = "error_marker") =>
        js_result.v = js_text

(* C15: for any x that is valid JSON text, ensure_json_format(x) is the    *)
(* parsed value of x, and normalizing the re-serialisation of that result  *)
(* gives the same value again.                                             *)
C15_IdempotentOnValidJson ==
    (js_pc \in {"done", "again"} /\ JsonLoads(js_text).ok) =>
        /\ js_result = JsParsed(JsonLoads(js_text).v)
        /\ js_pc = "again" => js_again = js_result

----------------------------------------------------------------------------
(* C16: when the text extraction of a PDF yields no text at all, the       *)
(* processing of that document ends in a reported failure and no           *)
(* completion request is sent for it.                                      *)
C16_EmptyExtractionFails ==
    \A n \in 1..Len(results) :
        pdf_files[n].extraction = "none" =>
            /\ ~results[n].success
            /\ bt_sent[n] = 0

----------------------------------------------------------------------------
(* C17: when DEEPSEEK_API_KEY is absent, every stage call                  *)
(* (generate_api_section / generate_section_analysis / generate_analysis)  *)
(* fails at once: no HTTP request is sent, each stage is called once and   *)
(* gives None, and no report is saved.                                     *)
C17_NoKeyNoRequestNoReport ==
    DEEPSEEK_API_KEY = "None" =>
        /\ sec_requests = 0
        /\ \A n \in 1..Len(sections) : sections[n] = "None"
        /\ Len(sections) <= Len(SectionTypes(sec_analyzer))
        /\ sec_report = NoResult

\* enhanced_book_analyzer.process_book has made its seven stage calls
\* without a credential and has returned.
C17_Witness ==
    /\ sec_pc = "done"
    /\ sec_analyzer = "enhanced"
    /\ DEEPSEEK_API_KEY = "None"
    /\ sec_pdf_text = "text"
    /\ Len(sections) = 7
    /\ sec_requests = 0
    /\ sec_report = NoResult

(* C18: for every aggregate report, generate_markdown (given a writable    *)
(* output file) succeeds and its output holds every section header of the  *)
(* report in the fixed order, whichever fields are absent or empty.        *)
C18_EveryHeaderEmitted ==
    (md_pc = "done" /\ md_ok) =>
        SectionHeaders(md_output) = AllSections(md_program)

\* The first alias of `keys` that the mapping holds with a value other than
\* `empty`, else the placeholder.
RECURSIVE FirstNonEmpty(_, _, _, _)
FirstNonEmpty(r, keys, empty, placeholder) ==
    IF keys = <<>> THEN placeholder
    ELSE IF HasKey(r, Head(keys)) /\ r.d[Head(keys)] # empty
         THEN r.d[Head(keys)]
    ELSE FirstNonEmpty(r, Tail(keys), empty, placeholder)

\* The standardised result the alias policy prescribes.
PolicyResult(data) ==
    LET chs == FirstNonEmpty(data, Aliases("chapters"), <<>>, <<>>)
    IN  [title |-> FirstNonEmpty(data, Aliases("title"), "", "no_title"),
         summary |-> FirstNonEmpty(data, Aliases("summary"), <<>>,
                                   <<"no_summary">>),
         toc |-> FirstNonEmpty(data, Aliases("toc"), <<>>, <<"no_toc">>),
         chapters |-> [k \in 1..Len(chs) |-> StandardChapter(chs[k])]]

(* C19: the standardised single-pass result takes, for each canonical      *)
(* field, the first alias of its priority list that is present and         *)
(* non-empty, and the placeholder only when there is none.                 *)
C19_FirstNonEmptyAlias ==
    al_pc = "returned" => al_result = Dict(PolicyResult(al_data))

\* The positions of the files whose result is a failure.
FailedFiles(rs) == { n \in 1..Len(rs) : ~rs[n].success }

SendsRequest == cl_requests' = cl_requests + 1

\* The position of the stage in progress in the plan base, chunk 0..n-1,
\* final integration.
StageRank ==
    CASE bk_pc = "base" -> 0
      [] bk_pc = "chunk" -> 1 + bk_i
      [] bk_pc = "final" -> 1 + bk_n
      [] OTHER -> 2 + bk_n

\* What is available when a request of the stage in progress is sent.
StageMaySend ==
    CASE bk_pc = "base" ->
            /\ base_structure = NoResult
            /\ chunk_results = <<>>
      [] bk_pc = "chunk" ->
            /\ IsDict(base_structure)
            /\ ~HasKey(base_structure, "error")
            /\ Len(chunk_results) = bk_i
            /\ bk_i < bk_n
            /\ final_result.title
                 = Get(base_structure, "title", "unknown_title")
      [] bk_pc = "final" ->
            /\ IsDict(base_structure)
            /\ Len(chunk_results) = bk_n
      [] OTHER -> FALSE

(* C21: process_large_book sends its requests in the order base stage,     *)
(* chunks 0..n-1, final integration; a request is sent only by the one     *)
(* call in progress, after the results of all earlier stages are there,    *)
(* and the chunk prompts carry the title taken from the base result.       *)
C21_StagesInOrder ==
    [][ /\ SendsRequest =>
              /\ cl_pc = "loop"
              /\ final_integration = NoResult
              /\ StageMaySend
        /\ StageRank' # StageRank =>
              /\ cl_pc = "returned"
              /\ bk_pc' = "done" \/ StageRank' = StageRank + 1 ]_vars

\* C21 witness: the final integration of a book of two chunks or more has
\* been asked for, after a base stage that gave a title.
C21_Witness ==
    /\ bk_pc = "final"
    /\ bk_n >= 2
    /\ cl_requests >= 1
    /\ HasKey(base_structure, "title")
    /\ Len(chunk_results) = bk_n

(* C22: when every DeepL request fails, translate_text(text,               *)
(* max_retries = N) with N >= 1 has sent exactly N requests, with a sleep  *)
(* between consecutive ones, when it raises, and the error raised reports  *)
(* N attempts.                                                             *)
C22_ExactlyNAttempts ==
    (tr_pc = "raised" /\ tr_max_retries >= 1) =>
        /\ Len(tr_requests) = tr_max_retries
        /\ Len(tr_sleeps) = tr_max_retries - 1
        /\ tr_result = TranslateFailedAfter(tr_max_retries,
                          TranslateError(tr_requests[Len(tr_requests)]))

\* The one cut of a split into two chunks has a newline on one side of it
\* at least.
CutTouchesBreak ==
    LET p == Len(chunks[1])
    IN  (p >= 1 /\ p < Len(text)) => (text[p] = "nl" \/ text[p + 1] = "nl")

(* C23: for the text 第一章 / 內容A / 第二章 / 內容B and every max_tokens  *)
(* that forces exactly two chunks, the cut has a newline next to it: it    *)
(* falls inside the paragraph break that follows 內容A, between its two    *)
(* newlines, and never between two characters of a paragraph.              *)
C23_ScenarioCutAtBreak ==
    (split_pc = "done" /\ text = ScenarioText /\ Len(chunks) = 2) =>
        /\ CutTouchesBreak
        /\ chunks[1] = SubSeq(ScenarioText, 1, 9)
        /\ chunks[2] = SubSeq(ScenarioText, 10, 18)

\* C23 witness: the scenario text has been split in two.
C23_Witness ==
    /\ split_pc = "done"
    /\ text = ScenarioText
    /\ Len(chunks) = 2
    /\ max_tokens = 10

(* C24: for every text, estimate_tokens returns an integer that is         *)
(* greater than or equal to 0.                                             *)
C24_EstimateIsNatural ==
    es_pc = "done" => (es_tokens \in Nat /\ es_extended \in Nat)

\* C24 witness: texts with an estimate of 0 and with a positive estimate
\* have been measured.
C24_Witness ==
    /\ es_pc = "done"
    /\ es_text = <<"sp">>
    /\ es_tokens = 0
    /\ es_extended > 0

(* C25: estimate_tokens(T + U) >= estimate_tokens(T) for all texts T and   *)
(* U, also when U merges into or breaks the word T ends with.              *)
C25_MonotoneUnderExtension ==
    es_pc = "done" => es_extended >= es_tokens

\* C25 witness: T ends with a word that the digit at the head of U breaks.
C25_Witness ==
    /\ es_pc = "done"
    /\ es_text = <<"a", "sp", "a">>
    /\ es_suffix = <<"1">>
    /\ EnglishWordCount(es_text \o es_suffix) < EnglishWordCount(es_text)

\* The positions of the characters that belong to a matched word.
WordChars(t) ==
    { i \in 1..Len(t) :
        \E s \in WordStarts(t) :
            /\ s <= i
            /\ \A k \in s..i : t[k] \in Letters }

\* floor(1.5 * count_cjk + count_words + 0.5 * count_other) with
\* count_other = total - count_cjk - characters of the words
StatedEstimate(t) ==
    LET count_cjk == ChineseCharCount(t)
        count_words == EnglishWordCount(t)
        count_other == Len(t) - count_cjk - Cardinality(WordChars(t))
    IN  (3 * count_cjk + 2 * count_words + count_other) \div 2

(* C26: estimate_tokens(text) = floor(1.5 * count_cjk + count_words +      *)
(* 0.5 * count_other), count_other being the code points that are neither  *)
(* CJK nor part of a counted word.                                         *)
C26_EstimateFormula ==
    es_pc = "done" => es_tokens = StatedEstimate(es_text)

\* 0-based position where chunk k begins.
RECURSIVE ChunkStart(_)
ChunkStart(k) == IF k = 1 THEN 0 ELSE ChunkStart(k - 1) + Len(chunks[k - 1])

\* The 0-based positions in [from, to) where a double newline begins and
\* ends inside the window.
BreaksIn(from, to) ==
    { i \in from..(to - 2) : text[i + 1] = "nl" /\ text[i + 2] = "nl" }

\* The 0-based positions in [from, to) of the sentence terminators: a full
\* stop followed by a space inside the window, or 。 ！ ？.
TerminatorsIn(from, to) ==
    { i \in from..(to - 2) : text[i + 1] = "dot" /\ text[i + 2] = "sp" } \cup
    { i \in from..(to - 1) : text[i + 1] \in {"istop", "iexcl", "iq"} }

\* The length the cut rule gives the chunk that begins at `start`.
RuleLength(start, chunk_size) ==
    LET mid == start + chunk_size \div 2
        breaks == BreaksIn(start, start + chunk_size)
        terminators == TerminatorsIn(start, start + chunk_size)
    IN  IF breaks # {} /\ SetMax(breaks) > mid
        THEN SetMax(breaks) + 2 - start
        ELSE IF terminators # {} /\ SetMax(terminators) > mid
             THEN SetMax(terminators) + 1 - start
             ELSE chunk_size

CutsFollowRule ==
    \A k \in 1..(Len(chunks) - 1) :
        Len(chunks[k]) = RuleLength(ChunkStart(k), ChunkSize(text, max_tokens))

(* C27 as stated: every cut but the last follows the rule (paragraph break *)
(* past the midpoint, else sentence terminator past the midpoint, else the *)
(* target position), hence every non-final chunk has length at most        *)
(* chunk_size and greater than chunk_size // 2.                            *)
C27_CutRuleAndLengths ==
    (split_pc = "done" /\ Len(chunks) >= 2) =>
        /\ CutsFollowRule
        /\ \A k \in 1..(Len(chunks) - 1) :
              /\ Len(chunks[k]) <= ChunkSize(text, max_tokens)
              /\ Len(chunks[k]) > ChunkSize(text, max_tokens) \div 2

(* C27 amended: every cut but the last follows the rule; a non-final chunk *)
(* has length at most chunk_size, and greater than chunk_size // 2 when    *)
(* chunk_size >= 1; when the text has fewer characters than chunks are cut *)
(* (chunk_size = 0) every non-final chunk is empty.                        *)
C27_CutRule ==
    (split_pc = "done" /\ Len(chunks) >= 2) =>
        /\ CutsFollowRule
        /\ \A k \in 1..(Len(chunks) - 1) :
              /\ Len(chunks[k]) <= ChunkSize(text, max_tokens)
              /\ ChunkSize(text, max_tokens) >= 1 =>
                    Len(chunks[k]) > ChunkSize(text, max_tokens) \div 2
              /\ ChunkSize(text, max_tokens) = 0 => chunks[k] = <<>>

\* C27 witness: the first chunk ends after a paragraph break although a
\* sentence terminator lies nearer the target in its window.
C27_Witness ==
    /\ split_pc = "done"
    /\ Len(chunks) >= 2
    /\ LET cs == ChunkSize(text, max_tokens)
       IN  /\ BreaksIn(0, cs) # {}
           /\ Len(chunks[1]) = SetMax(BreaksIn(0, cs)) + 2
           /\ TerminatorsIn(0, cs) # {}
           /\ SetMax(TerminatorsIn(0, cs)) > SetMax(BreaksIn(0, cs))

(* C28: the text returned by extract_pdf_text of the section analyzers     *)
(* estimates to at most the limit of the program (15000, or 20000 in the   *)
(* 7-stage analyzer), whatever the mix of characters.                      *)
C28_TruncatedWithinLimit ==
    (tc_pc = "returned" /\ tc_result.kind = "text") =>
        RunEstimate(tc_result.runs) <= TokenLimit(tc_analyzer)

(* C29: the parts of the content handed to the stages follow one another   *)
(* without gap or overlap and, concatenated in stage order, give the       *)
(* content back exactly, for every length, also below the number of        *)
(* stages.                                                                 *)
C29_SlicesPartitionContent ==
    /\ \A k \in 1..Len(sl_slices) :
          \A j \in 1..Len(sl_slices[k]) :
              sl_slices[k][j] = Len(Concat(SubSeq(sl_slices, 1, k - 1))) + j
    /\ sl_pc = "done" => Concat(sl_slices) = content

\* C29 witness: all seven stages have been served from a content of three
\* characters, so four of them received the empty string.
C29_Witness ==
    /\ sl_pc = "done"
    /\ sl_analyzer = "enhanced"
    /\ Len(content) = 3
    /\ Len(sl_slices) = 7
    /\ Cardinality({ k \in 1..7 : sl_slices[k] = <<>> }) = 4

\* process_book of the 7-stage or the 3-stage analyzer has returned after
\* reading a text.
StagedRunOver ==
    /\ sec_analyzer \in {"enhanced", "multi"}
    /\ sec_pdf_text = "text"
    /\ sec_pc \in {"done", "save_failed"}

\* Some stage call returned content.
SomeStageSucceeded == \E n \in 1..Len(sections) : sections[n] # "None"

\* The position of a section type in the plan.
PlanIndex(t) ==
    CHOOSE n \in 1..Len(SectionTypes(sec_analyzer)) :
        SectionTypes(sec_analyzer)[n] = t

\* The body of a report holds the sections of the stages that returned
\* content, each once, in plan order.
BodyIsSuccessesInPlanOrder(body) ==
    /\ \A i \in 1..Len(body) :
          \E n \in 1..Len(sections) :
              /\ SectionTypes(sec_analyzer)[n] = body[i]
              /\ sections[n] # "None"
    /\ \A n \in 1..Len(sections) :
          sections[n] # "None" =>
              \E i \in 1..Len(body) : body[i] = SectionTypes(sec_analyzer)[n]
    /\ \A i, j \in 1..Len(body) :
          i < j => PlanIndex(body[i]) < PlanIndex(body[j])

\* Every stage is called once, one after the other, whatever the stages
\* before it returned.
EveryStageCalledOnce ==
    /\ Len(sections) <= Len(SectionTypes(sec_analyzer))
    /\ ~KeyMissing(DEEPSEEK_API_KEY) => sec_requests = Len(sections)
    /\ StagedRunOver => Len(sections) = Len(SectionTypes(sec_analyzer))

(* C30 as stated: in the 7-stage and the 3-stage process_book every stage  *)
(* is called exactly once in plan order whatever the earlier stages        *)
(* returned; a report is saved if and only if at least one stage returned  *)
(* content; a saved report holds exactly the sections of the stages that   *)
(* succeeded, in plan order.                                               *)
C30_ReportSavedIffSomeStageSucceeded ==
    sec_analyzer \in {"enhanced", "multi"} =>
        /\ EveryStageCalledOnce
        /\ StagedRunOver => (sec_report # NoResult <=> SomeStageSucceeded)
        /\ sec_report # NoResult =>
              BodyIsSuccessesInPlanOrder(sec_report.body)

(* C30 amended: every stage is called exactly once in plan order whatever  *)
(* the earlier stages returned; save_report is reached if and only if at   *)
(* least one stage returned content, and the report is saved unless the    *)
(* write fails; a saved report holds exactly the sections of the stages    *)
(* that succeeded, in plan order.                                          *)
C30_ReportSavedIffSucceededAndWritten ==
    sec_analyzer \in {"enhanced", "multi"} =>
        /\ EveryStageCalledOnce
        /\ StagedRunOver =>
              /\ sec_report # NoResult <=>
                    (SomeStageSucceeded /\ sec_pc = "done")
              /\ sec_pc = "save_failed" => SomeStageSucceeded
        /\ sec_report # NoResult =>
              BodyIsSuccessesInPlanOrder(sec_report.body)

\* C30 witness: the 7-stage run went through all its stages although the
\* first and the third failed, and saved a report with the five others.
C30_Witness ==
    /\ sec_analyzer = "enhanced"
    /\ sec_pc = "done"
    /\ Len(sections) = 7
    /\ sections[1] = "None"
    /\ sections[2] = "content"
    /\ sections[3] = "None"
    /\ sec_report # NoResult
    /\ sec_report.body = <<"theoretical_framework", "methodology_analysis",
                           "chapter_deep_dive", "practical_guidance",
                           "critical_reflection">>
====
